---- MODULE Spec2Model ----
(***************************************************************************)
(* A model of svg-code-convert (src/svg-code-convert.full.js and the copy  *)
(* of it, extended with calcLayer, in src/proxy.php).                      *)
(*                                                                         *)
(* Markup text is a sequence of tokens (an opening tag with its attribute  *)
(* map, a closing tag, a self-closed tag, an unclosed void tag, a run of   *)
(* text characters).  A tree node is the object domToObject builds:        *)
(*   [tag, attrs, children, wid]                                           *)
(* where attrs maps attribute names to values and wid is the scratch field *)
(* __widthSvgId__ of calcLayer (0: the field is absent).  A style value is *)
(* a sequence of declarations, a viewBox value a sequence of its tokens,   *)
(* every other attribute value a string.  Whitespace, quoting and the      *)
(* order of attributes inside a tag are not represented.                   *)
(***************************************************************************)
EXTENDS Integers, Sequences, FiniteSets, TLC

VARIABLES
    input,      \* the markup handed to parse (never changes)
    code,       \* the markup the next parse reads
    tree,       \* the tree object shared by the call chain, or NoTree
    prev,       \* the tree as it was before the last rule or calcLayer call
    ret,        \* what the last rule call returned (resolved to)
    out,        \* what compose returned, or NoText
    hist,       \* the calls made so far, in order
    pc,         \* "idle", or the async rule that is suspended at its await
    targetImgs, \* the match sites the running async rule collected
    cur,        \* index in targetImgs of the iteration in progress
    inflight,   \* indices of targetImgs whose probe promise is pending
    settled,    \* outcome of the probe the rule awaits, or NoOutcome
    probes,     \* per index of targetImgs, while the rule runs: the img, the
                \* timer and the promise of its probe
    replaced,   \* indices of targetImgs in the order their site was spliced
    layer,      \* what the last calcLayer call returned, or NoLayer
    layer0      \* what the calcLayer call before that returned, or NoLayer

vars == <<input, code, tree, prev, ret, out, hist, pc, targetImgs, cur,
          inflight, settled, probes, replaced, layer, layer0>>

----------------------------------------------------------------------------
(* Bounds of the model *)

MaxKids == 2
MaxOps == 2

----------------------------------------------------------------------------
(* Attribute maps *)

EmptyAttrs == [k \in {} |-> ""]

\* { ...a, ...b }: the keys of both, b winning
Merge(a, b) == [k \in DOMAIN a \cup DOMAIN b |-> IF k \in DOMAIN b THEN b[k] ELSE a[k]]

\* delete a[k] for every k in ks
Without(a, ks) == [k \in DOMAIN a \ ks |-> a[k]]

One(k, v) == [x \in {k} |-> v]

\* the attributes whose value is a sequence (of declarations, of tokens, of
\* characters); the empty sequence stands for the empty string
SeqKeys == {"style", "viewBox", "#text"}

\* a[k] is neither undefined nor the empty string
Truthy(a, k) == k \in DOMAIN a /\ (IF k \in SeqKeys THEN a[k] # <<>> ELSE a[k] # "")

\* a[k] || d
OrElse(a, k, d) == IF Truthy(a, k) THEN a[k] ELSE d

SeqMax(S) == CHOOSE m \in S : \A n \in S : n <= m

RECURSIVE SelectDecls(_, _)
SelectDecls(s, keep) ==
    IF s = <<>> THEN <<>>
    ELSE IF Head(s).p \in keep THEN <<Head(s)>> \o SelectDecls(Tail(s), keep)
         ELSE SelectDecls(Tail(s), keep)

RECURSIVE DropDecls(_, _)
DropDecls(s, drop) ==
    IF s = <<>> THEN <<>>
    ELSE IF Head(s).p \in drop THEN DropDecls(Tail(s), drop)
         ELSE <<Head(s)>> \o DropDecls(Tail(s), drop)

----------------------------------------------------------------------------
(* Style declarations *)

Decl(p, v) == [p |-> p, v |-> v, url |-> "", sh |-> <<>>]
BgImage(u) == [p |-> "background-image", v |-> "", url |-> u, sh |-> <<>>]
\* background: c url(u) pos [/ size] repeat attachment origin clip
BgShort(u, c, pos, size, r, a, o, l) ==
    [p |-> "background", v |-> "", url |-> u, sh |-> <<c, pos, size, r, a, o, l>>]

BgPropNames ==
    {"background", "background-image", "background-position", "background-size",
     "background-repeat", "background-attachment", "background-origin",
     "background-clip", "background-color"}

----------------------------------------------------------------------------
(* Nodes *)

Node(t, a, c) == [tag |-> t, attrs |-> a, children |-> c, wid |-> 0]

NoTree == Node("#none", EmptyAttrs, <<>>)
NoText == <<[k |-> "#none", tag |-> "", attrs |-> EmptyAttrs, s |-> <<>>]>>
ThrownText == <<[k |-> "#throw", tag |-> "", attrs |-> EmptyAttrs, s |-> <<>>]>>
ThrownTree == Node("#throw", EmptyAttrs, <<>>)

IsLeaf(n) == n.tag \in {"wenben", "zhushi"}

----------------------------------------------------------------------------
(* Tokens of markup text *)

Open(t, a) == [k |-> "open", tag |-> t, attrs |-> a, s |-> <<>>]
Close(t) == [k |-> "close", tag |-> t, attrs |-> EmptyAttrs, s |-> <<>>]
Self(t, a) == [k |-> "self", tag |-> t, attrs |-> a, s |-> <<>>]
Void(t, a) == [k |-> "void", tag |-> t, attrs |-> a, s |-> <<>>]
Text(s) == [k |-> "text", tag |-> "", attrs |-> EmptyAttrs, s |-> s]
Comment(s) == [k |-> "comment", tag |-> "", attrs |-> EmptyAttrs, s |-> s]

El(t, a, kids) == <<Open(t, a)>> \o kids \o <<Close(t)>>

RECURSIVE Flatten(_)
Flatten(ss) == IF ss = <<>> THEN <<>> ELSE Head(ss) \o Flatten(Tail(ss))

----------------------------------------------------------------------------
(* preprocess: the nine passes, on tokens.  The inputs are repaired markup  *)
(* (every non-void element has its closing tag, names are in their          *)
(* canonical case inside svg), so of the lenient parser's repairs only the  *)
(* ones below can apply.  unifyQuotes and compressWhitespace act on         *)
(* quoting and whitespace, which tokens do not represent.                   *)

voidTags == {"img", "br", "input", "hr"}

svgTags == {"svg", "g", "image", "foreignObject", "animate", "rect"}

\* innerHTML of the lenient parser: a bare & becomes &amp;, a void element is
\* written <img ...>, an empty foreign element <g ...></g>
fixStructure(html) ==
    Flatten([i \in 1..Len(html) |->
        LET t == html[i] IN
        CASE t.k = "text" ->
                <<Text([j \in 1..Len(t.s) |-> IF t.s[j] = "&" THEN "&amp;" ELSE t.s[j]])>>
          [] t.k \in {"self", "void"} /\ t.tag \in voidTags -> <<Void(t.tag, t.attrs)>>
          [] t.k = "self" /\ t.tag \in svgTags -> <<Open(t.tag, t.attrs), Close(t.tag)>>
          [] OTHER -> <<t>>])

removeLazyAttrs(html) ==
    [i \in 1..Len(html) |->
        LET t == html[i]
            a == IF t.k \in {"open", "self", "void"} /\ t.tag = "img"
                 THEN Without(t.attrs, {"data-src"}) ELSE t.attrs
        IN [t EXCEPT !.attrs = Without(a, {"data-lazy-bgimg"})]]

\* a class value is one token here: the placeholder alone, or another class
removePlaceholder(html) ==
    [i \in 1..Len(html) |->
        LET t == html[i] IN
        IF "class" \in DOMAIN t.attrs /\ t.attrs["class"] = "wx_imgbc_placeholder"
        THEN [t EXCEPT !.attrs = Without(t.attrs, {"class"})]
        ELSE t]

validEntities == {"&amp;", "&lt;", "&gt;", "&quot;", "&nbsp;", "&copy;", "&yen;",
                  "&euro;", "&deg;", "&times;", "&permil;"}

escapeAmpersands(html) ==
    [i \in 1..Len(html) |->
        LET t == html[i] IN
        [t EXCEPT !.s = [j \in 1..Len(t.s) |-> IF t.s[j] = "&" THEN "&amp;" ELSE t.s[j]]]]

fixVoidTags(html) ==
    [i \in 1..Len(html) |->
        LET t == html[i] IN
        IF t.k = "void" /\ t.tag \in voidTags THEN Self(t.tag, t.attrs) ELSE t]

tagNameMap(t) ==
    CASE t = "animatetransform" -> "animateTransform"
      [] t = "animatemotion" -> "animateMotion"
      [] t = "foreignobject" -> "foreignObject"
      [] OTHER -> t

attrNameMap(k) ==
    CASE k = "viewbox" -> "viewBox"
      [] k = "calcmode" -> "calcMode"
      [] k = "attributename" -> "attributeName"
      [] k = "attributetype" -> "attributeType"
      [] k = "keytimes" -> "keyTimes"
      [] k = "keysplines" -> "keySplines"
      [] k = "repeatcount" -> "repeatCount"
      [] k = "repeatdur" -> "repeatDur"
      [] OTHER -> k

fixCase(html) ==
    [i \in 1..Len(html) |->
        LET t == html[i]
            keys == {attrNameMap(k) : k \in DOMAIN t.attrs}
        IN [t EXCEPT !.tag = tagNameMap(t.tag),
                     !.attrs = [k \in keys |->
                                  t.attrs[CHOOSE o \in DOMAIN t.attrs : attrNameMap(o) = k]]]]

RootAttrs == One("id", "iftool")

wrapRoot(html) == <<Open("div", RootAttrs)>> \o html \o <<Close("div")>>

preprocess(c) ==
    wrapRoot(fixCase(fixVoidTags(escapeAmpersands(removePlaceholder(
        removeLazyAttrs(fixStructure(c)))))))

----------------------------------------------------------------------------
(* DOMParser.parseFromString(text, 'image/svg+xml'): a strict XML parse.    *)
(* A text node is ("#text", chars).                                         *)

TextNode(chars) == Node("#text", One("#text", chars), <<>>)

\* a comment node, its nodeValue in the same slot
CommentNode(chars) == Node("#comment", One("#text", chars), <<>>)

\* entity references of XML text: &amp; is the character &
XmlChar(c) == IF c = "&amp;" THEN "&" ELSE c

\* the characters XML cannot hold in text: a bare &, an undeclared entity
XmlBadChar(c) == c = "&" \/ (c \in validEntities /\ c \notin {"&amp;", "&lt;", "&gt;", "&quot;"})

RECURSIVE ParseKids(_, _)
ParseKids(toks, i) ==
    IF i > Len(toks) THEN [ok |-> TRUE, kids |-> <<>>, next |-> i]
    ELSE
    LET t == toks[i] IN
    CASE t.k = "close" -> [ok |-> TRUE, kids |-> <<>>, next |-> i]
      [] t.k = "text" ->
            LET r == ParseKids(toks, i + 1) IN
            [ok |-> r.ok /\ \A j \in 1..Len(t.s) : ~XmlBadChar(t.s[j]),
             kids |-> <<TextNode([j \in 1..Len(t.s) |-> XmlChar(t.s[j])])>> \o r.kids,
             next |-> r.next]
      [] t.k = "comment" ->
            LET r == ParseKids(toks, i + 1) IN
            [ok |-> r.ok, kids |-> <<CommentNode(t.s)>> \o r.kids, next |-> r.next]
      [] t.k = "self" ->
            LET r == ParseKids(toks, i + 1) IN
            [ok |-> r.ok, kids |-> <<Node(t.tag, t.attrs, <<>>)>> \o r.kids, next |-> r.next]
      [] t.k = "open" ->
            LET inner == ParseKids(toks, i + 1)
                closed == /\ inner.ok
                          /\ inner.next <= Len(toks)
                          /\ toks[inner.next].k = "close"
                          /\ toks[inner.next].tag = t.tag
                r == IF closed THEN ParseKids(toks, inner.next + 1)
                     ELSE [ok |-> FALSE, kids |-> <<>>, next |-> Len(toks) + 1]
            IN [ok |-> r.ok,
                kids |-> <<Node(t.tag, t.attrs, inner.kids)>> \o r.kids,
                next |-> r.next]
      [] OTHER -> [ok |-> FALSE, kids |-> <<>>, next |-> Len(toks) + 1]

\* the document, or a parsererror
parseFromString(toks) ==
    LET r == ParseKids(toks, 1) IN
    IF r.ok /\ r.next = Len(toks) + 1 /\ Len(r.kids) = 1
       /\ r.kids[1].tag \notin {"#text", "#comment"}
    THEN [ok |-> TRUE, documentElement |-> r.kids[1]]
    ELSE [ok |-> FALSE, documentElement |-> ThrownTree]

----------------------------------------------------------------------------
(* extractAssets and processStyle *)

\* the initial values a background shorthand gives the longhands it leaves out
BgInitial ==
    <<"rgba(0, 0, 0, 0)", "0% 0%", "auto", "repeat", "scroll", "padding-box", "border-box">>

\* the value the CSS object model reports for one background longhand: that
\* of the last declaration setting it, the shorthand setting all of them
BgLonghand(style, name, shIndex) ==
    LET idx == {i \in 1..Len(style) : style[i].p \in {name, "background"}} IN
    IF idx = {} THEN ""
    ELSE LET d == style[SeqMax(idx)] IN
         IF d.p # "background" THEN d.v
         ELSE IF d.sh[shIndex] # "" THEN d.sh[shIndex]
         ELSE BgInitial[shIndex]

BgUrl(style) ==
    LET idx == {i \in 1..Len(style) : style[i].p \in {"background-image", "background"}} IN
    IF idx = {} THEN "" ELSE style[SeqMax(idx)].url

processStyle(styleString) ==
    [bgProps |-> [url |-> BgUrl(styleString),
                  color |-> BgLonghand(styleString, "background-color", 1),
                  position |-> BgLonghand(styleString, "background-position", 2),
                  size |-> BgLonghand(styleString, "background-size", 3),
                  repeat |-> BgLonghand(styleString, "background-repeat", 4),
                  attachment |-> BgLonghand(styleString, "background-attachment", 5),
                  origin |-> BgLonghand(styleString, "background-origin", 6),
                  clip |-> BgLonghand(styleString, "background-clip", 7)],
     cleanedStyle |-> DropDecls(styleString, BgPropNames)]

\* what extractAssets does to one element
ExtractNode(n) ==
    LET a1 == IF n.tag = "image" /\ "href" \in DOMAIN n.attrs
              THEN Merge(Without(n.attrs, {"href"}), One("iftool-href", n.attrs["href"]))
              ELSE n.attrs
        a2 == IF n.tag = "img" /\ "src" \in DOMAIN a1
              THEN Merge(Without(a1, {"src"}), One("iftool-src", a1["src"]))
              ELSE a1
        ps == processStyle(a2["style"])
        b  == ps.bgProps
        a3 == IF b.url # ""
              THEN Merge(a2, [k \in {"iftool-background", "iftool-bg-color",
                                     "iftool-bg-position", "iftool-bg-size",
                                     "iftool-bg-repeat", "iftool-bg-attachment",
                                     "iftool-bg-origin", "iftool-bg-clip"} |->
                                CASE k = "iftool-background" -> b.url
                                  [] k = "iftool-bg-color" -> b.color
                                  [] k = "iftool-bg-position" -> b.position
                                  [] k = "iftool-bg-size" -> b.size
                                  [] k = "iftool-bg-repeat" -> b.repeat
                                  [] k = "iftool-bg-attachment" -> b.attachment
                                  [] k = "iftool-bg-origin" -> b.origin
                                  [] OTHER -> b.clip])
              ELSE a2
    IN IF "style" \notin DOMAIN a2 THEN [n EXCEPT !.attrs = a2]
       ELSE IF ps.cleanedStyle # <<>>
            THEN [n EXCEPT !.attrs = Merge(a3, One("style", ps.cleanedStyle))]
            ELSE [n EXCEPT !.attrs = Without(a3, {"style"})]

\* the TreeWalker visits every element below the root, not the root
RECURSIVE ExtractBelow(_)
ExtractBelow(n) ==
    [n EXCEPT !.children =
        [i \in 1..Len(n.children) |->
            LET c == n.children[i] IN
            IF c.tag \in {"#text", "#comment"} THEN c ELSE ExtractBelow(ExtractNode(c))]]

extractAssets(rootNode) == ExtractBelow(rootNode)

\* text characters carry no whitespace here, so trim() changes nothing and no
\* text node is dropped as blank
RECURSIVE domToObject(_)
domToObject(n) ==
    IF n.tag = "#text" THEN Node("wenben", n.attrs, <<>>)
    ELSE IF n.tag = "#comment" THEN Node("zhushi", n.attrs, <<>>)
    ELSE Node(n.tag, n.attrs, [i \in 1..Len(n.children) |-> domToObject(n.children[i])])

\* parse(code): the tree, or ThrownTree when the XML parse fails
parse(c) ==
    LET doc == parseFromString(preprocess(c)) IN
    IF ~doc.ok THEN ThrownTree
    ELSE domToObject(extractAssets(doc.documentElement))

----------------------------------------------------------------------------
(* Helpers of the rewrite rules *)

preservedAttrsList == {"class", "id", "name", "label", "pointer-events", "transform", "opacity"}

\* the attribute names starting with data- that occur in the model
DataAttrs == {"data-src", "data-lazy-bgimg", "data-id"}

filterPreservedAttrs(attrs) ==
    [k \in {a \in DOMAIN attrs : a \in preservedAttrsList \/ a \in DataAttrs} |-> attrs[k]]

\* the two styles joined with their width declarations left in
removeWidthNothing(styleArr) == styleArr[1] \o styleArr[2]

\* styleArr is the pair of style values; the width declarations go
removeWidth(styleArr) == DropDecls(styleArr[1] \o styleArr[2], {"width", "WIDTH"})

\* node.attrs.style || ''
StyleOf(n) == IF "style" \in DOMAIN n.attrs THEN n.attrs["style"] ELSE <<>>

\* the first child with this tag: its index, or 0
FindChild(n, t) ==
    LET idx == {i \in 1..Len(n.children) : n.children[i].tag = t} IN
    IF idx = {} THEN 0 ELSE CHOOSE i \in idx : \A j \in idx : i <= j

\* parentInfo?.parentNode?.children is truthy: the node is not the root
HasParent(parent) == parent.tag # "#none"

Positional(n) ==
    [k \in {"x", "y", "width", "height"} |->
        CASE k = "x" -> OrElse(n.attrs, "x", "0")
          [] k = "y" -> OrElse(n.attrs, "y", "0")
          [] k = "width" -> OrElse(n.attrs, "width", "100%")
          [] OTHER -> OrElse(n.attrs, "height", "100%")]

----------------------------------------------------------------------------
(* The callbacks of the six synchronous rules.  Each returns stop (the value *)
(* the callback returns) and slot (the node that occupies the visited child *)
(* slot when the callback is done).                                         *)

Pass(node) == [stop |-> FALSE, slot |-> node]

fosvg2imageCb(node, parent) ==
    IF node.tag # "foreignObject" THEN Pass(node)
    ELSE
    LET i == FindChild(node, "svg") IN
    IF i = 0 THEN Pass(node)
    ELSE
    LET svgChild == node.children[i] IN
    IF ~(Truthy(svgChild.attrs, "iftool-background") /\ svgChild.children = <<>>
         /\ HasParent(parent))
    THEN Pass(node)
    ELSE
    LET preservedAttrs == filterPreservedAttrs(Merge(node.attrs, svgChild.attrs))
        imageStyle == removeWidth(<<StyleOf(node), StyleOf(svgChild)>>)
        imageNode == Node("image",
                          Merge(Merge(Merge(preservedAttrs,
                                One("iftool-href", svgChild.attrs["iftool-background"])),
                                Positional(node)),
                                One("style", imageStyle)),
                          <<>>)
    IN [stop |-> TRUE, slot |-> imageNode]

\* the animation shape svg2image must leave alone
\* a test that finds the animation shape in no svg
HasHeightByAnimateNever(node) == FALSE

HasHeightByAnimate(node) ==
    \E i \in 1..Len(node.children) :
        /\ node.children[i].tag = "animate"
        /\ "attributeName" \in DOMAIN node.children[i].attrs
        /\ node.children[i].attrs["attributeName"] = "height"
        /\ "by" \in DOMAIN node.children[i].attrs
        /\ node.children[i].attrs["by"] = "-1"

svg2imageCb(node, parent) ==
    IF node.tag # "svg" \/ HasHeightByAnimate(node) THEN Pass(node)
    ELSE
    IF ~(parent.tag # "foreignObject" /\ Truthy(node.attrs, "iftool-background")
         /\ HasParent(parent))
    THEN Pass(node)
    ELSE
    LET parts == IF Truthy(node.attrs, "viewBox") THEN node.attrs["viewBox"] ELSE <<>>
        imageWidth == IF Len(parts) >= 4 THEN parts[3] ELSE "100%"
        imageHeight == IF Len(parts) >= 4 THEN parts[4] ELSE "100%"
        imageStyle == DropDecls(StyleOf(node), {"transform", "opacity"})
        imageNode == Node("image",
                          [k \in {"iftool-href", "x", "y", "width", "height", "style"} |->
                              CASE k = "iftool-href" -> node.attrs["iftool-background"]
                                [] k = "x" -> "0"
                                [] k = "y" -> "0"
                                [] k = "width" -> imageWidth
                                [] k = "height" -> imageHeight
                                [] OTHER -> imageStyle],
                          <<>>)
    IN [stop |-> TRUE,
        slot |-> [node EXCEPT !.children = <<imageNode>> \o node.children,
                              !.attrs = Without(node.attrs, {"iftool-background"})]]

svg2imgCb(node, parent) ==
    IF ~(node.tag = "svg" /\ node.children = <<>>
         /\ Truthy(node.attrs, "iftool-background") /\ HasParent(parent))
    THEN Pass(node)
    ELSE
    LET imgNode == Node("img",
                        Merge(Merge(filterPreservedAttrs(node.attrs),
                              One("iftool-src", node.attrs["iftool-background"])),
                              One("style", StyleOf(node))),
                        <<>>)
    IN [stop |-> TRUE, slot |-> imgNode]

ImageMatches(node, parent) ==
    /\ node.tag = "image"
    /\ node.children = <<>>
    /\ Truthy(node.attrs, "iftool-href")
    /\ HasParent(parent)

image2imgCb(node, parent) ==
    IF ~ImageMatches(node, parent) THEN Pass(node)
    ELSE
    LET imgNode == Node("img",
                        Merge(Merge(filterPreservedAttrs(node.attrs),
                              One("iftool-src", node.attrs["iftool-href"])),
                              One("style", StyleOf(node))),
                        <<>>)
        gNode == Node("g", EmptyAttrs,
                      <<Node("foreignObject", Positional(node), <<imgNode>>)>>)
    IN [stop |-> TRUE, slot |-> gNode]

image2svgCb(node, parent) ==
    IF ~ImageMatches(node, parent) THEN Pass(node)
    ELSE
    LET pos == Positional(node)
        svgNode == Node("svg",
                        Merge(filterPreservedAttrs(node.attrs),
                              [k \in {"viewBox", "style", "iftool-background"} |->
                                  CASE k = "viewBox" -> <<"0", "0", pos["width"], pos["height"]>>
                                    [] k = "style" -> StyleOf(node)
                                    [] OTHER -> node.attrs["iftool-href"]]),
                        <<>>)
        gNode == Node("g", EmptyAttrs, <<Node("foreignObject", pos, <<svgNode>>)>>)
    IN [stop |-> TRUE, slot |-> gNode]

foimg2imageCb(node, parent) ==
    IF ~(node.tag = "foreignObject" /\ HasParent(parent)) THEN Pass(node)
    ELSE
    LET i == FindChild(node, "img") IN
    IF i = 0 THEN Pass(node)
    ELSE
    LET imgChild == node.children[i] IN
    IF ~(Truthy(imgChild.attrs, "iftool-src") /\ imgChild.children = <<>>) THEN Pass(node)
    ELSE
    LET preservedAttrs == filterPreservedAttrs(Merge(node.attrs, imgChild.attrs))
        imageStyle == removeWidth(<<StyleOf(node), StyleOf(imgChild)>>)
        imageNode == Node("image",
                          Merge(Merge(Merge(preservedAttrs,
                                One("iftool-href", imgChild.attrs["iftool-src"])),
                                Positional(node)),
                                One("style", imageStyle)),
                          <<>>)
    IN [stop |-> TRUE, slot |-> imageNode]

SyncRules == {"fosvg2image", "svg2image", "svg2img", "image2img", "image2svg", "foimg2image"}
AsyncRules == {"img2image", "img2svg"}

callback(rule, node, parent) ==
    CASE rule = "fosvg2image" -> fosvg2imageCb(node, parent)
      [] rule = "svg2image" -> svg2imageCb(node, parent)
      [] rule = "svg2img" -> svg2imgCb(node, parent)
      [] rule = "image2img" -> image2imgCb(node, parent)
      [] rule = "image2svg" -> image2svgCb(node, parent)
      [] rule = "foimg2image" -> foimg2imageCb(node, parent)
      [] OTHER -> Pass(node)

\* traverseHtmlTree with a rule's callback: the node that occupies the visited
\* slot once the walk below it is over.  No descent when the callback stops.
RECURSIVE traverseHtmlTree(_, _, _)
traverseHtmlTree(rule, node, parent) ==
    LET r == callback(rule, node, parent) IN
    IF r.stop THEN r.slot
    ELSE [r.slot EXCEPT !.children =
            [i \in 1..Len(r.slot.children) |->
                traverseHtmlTree(rule, r.slot.children[i], r.slot)]]

\* the tree object after rule(tree)
ApplyRule(rule, t) == traverseHtmlTree(rule, t, NoTree)

\* the value rule(tree) returns: fosvg2image and svg2image end without a
\* return statement
Returned(rule) == IF rule \in {"fosvg2image", "svg2image"} THEN "undefined" ELSE "tree"

----------------------------------------------------------------------------
(* The two asynchronous rules: collection, then one probe per match *)

img2imageMatches(node, parent) ==
    /\ node.tag = "img"
    /\ Truthy(node.attrs, "iftool-src")
    /\ HasParent(parent)
    /\ parent.tag # "foreignObject"
    /\ ~Truthy(node.attrs, "width")
    /\ ~Truthy(node.attrs, "height")

\* a match on the presence of the attribute, whatever its value
img2svgMatchesAnyValue(node, parent) ==
    /\ node.tag = "img"
    /\ node.children = <<>>
    /\ "iftool-src" \in DOMAIN node.attrs
    /\ HasParent(parent)

img2svgMatches(node, parent) ==
    /\ node.tag = "img"
    /\ node.children = <<>>
    /\ Truthy(node.attrs, "iftool-src")
    /\ HasParent(parent)

\* the first walk of an async rule: the match sites in visiting order, each
\* with the path of its child slot (the callback never stops the descent)
RECURSIVE CollectTargets(_, _, _, _)
CollectTargets(rule, node, parent, path) ==
    LET here == IF rule = "img2image" THEN img2imageMatches(node, parent)
                ELSE img2svgMatches(node, parent)
    IN (IF here THEN <<[path |-> path, node |-> node]>> ELSE <<>>)
       \o Flatten([i \in 1..Len(node.children) |->
                     CollectTargets(rule, node.children[i], node, Append(path, i))])

\* a collecting walk that hands the matches over last first
TargetsLastFirst(rule, t) ==
    LET found == CollectTargets(rule, t, NoTree, <<>>) IN
    [i \in 1..Len(found) |-> found[Len(found) + 1 - i]]

\* targetImgs once the collecting walk of the rule is over
Targets(rule, t) == CollectTargets(rule, t, NoTree, <<>>)

\* parentNode.children.splice(childIndex, 1, new) at the site the path names
RECURSIVE ReplaceAt(_, _, _)
ReplaceAt(t, path, new) ==
    IF path = <<>> THEN new
    ELSE [t EXCEPT !.children[Head(path)] = ReplaceAt(@, Tail(path), new)]

RECURSIVE NodeAt(_, _)
NodeAt(t, path) ==
    IF path = <<>> THEN t
    ELSE IF Head(path) > Len(t.children) THEN NoTree
    ELSE NodeAt(t.children[Head(path)], Tail(path))

\* the walk of traverseHtmlTree with the calls of the callback it makes
\* written down: the node and the parentInfo each call was given, and what
\* the call returned.  NoParentInfo is null.
NoParentInfo == [parentNode |-> NoTree, childIndex |-> -1]

\* a walk that goes on below a node whatever the callback returned
DescendsAlways(r) == TRUE

\* if (stop) return;
Descends(r) == ~r.stop

RECURSIVE Walk(_, _, _)
RECURSIVE WalkKids(_, _, _, _, _)
Walk(rule, st, path) ==
    LET node == NodeAt(st.t, path)
        parentInfo == IF path = <<>> THEN NoParentInfo
                      ELSE [parentNode |-> NodeAt(st.t, SubSeq(path, 1, Len(path) - 1)),
                            childIndex |-> path[Len(path)] - 1]
        r == callback(rule, node, parentInfo.parentNode)
        st1 == [t |-> ReplaceAt(st.t, path, r.slot),
                log |-> Append(st.log, [path |-> path, node |-> node,
                                        parentInfo |-> parentInfo, stop |-> r.stop])]
    IN IF Descends(r) THEN WalkKids(rule, st1, path, 1, Len(r.slot.children)) ELSE st1

\* node.children.forEach: the children from the i-th to the n-th
WalkKids(rule, st, path, i, n) ==
    IF i > n THEN st
    ELSE WalkKids(rule, Walk(rule, st, Append(path, i)), path, i + 1, n)

\* the calls traverseHtmlTree(tree, callback) makes, in order
Visits(rule, t) == Walk(rule, [t |-> t, log |-> <<>>], <<>>).log

\* what the statements of a rule's callback write at a match site, one after
\* the other, and the content of the child slot after each: svg2image edits
\* the node the slot holds (children.unshift, then delete of the attribute),
\* every other rule puts a new node in the slot with one splice
SlotWrites(rule, node, parent) ==
    LET r == callback(rule, node, parent) IN
    IF ~r.stop THEN <<>>
    ELSE IF rule = "svg2image"
    THEN <<[how |-> "unshift", slot |-> [node EXCEPT !.children = r.slot.children]],
           [how |-> "delete", slot |-> r.slot]>>
    ELSE <<[how |-> "splice", slot |-> r.slot]>>

imgWidth == 1080

\* Math.round(imgWidth / ratio) for the ratio num / den
imgHeight(ratio) == (2 * imgWidth * ratio[2] + ratio[1]) \div (2 * ratio[1])

\* the node built in the try block, after the probe resolved
SuccessNode(rule, node, ratio) ==
    LET preservedAttrs == filterPreservedAttrs(node.attrs)
        viewBox == <<"0", "0", ToString(imgWidth), ToString(imgHeight(ratio))>>
    IN IF rule = "img2image"
       THEN Node("svg",
                 [k \in {"viewBox", "style"} |->
                     IF k = "viewBox" THEN viewBox
                     ELSE <<Decl("display", "block"), Decl("pointer-events", "painted"),
                            Decl("width", "100%")>>],
                 <<Node("image",
                        Merge(preservedAttrs,
                              [k \in {"iftool-href", "x", "y", "width", "height", "style"} |->
                                  CASE k = "iftool-href" -> node.attrs["iftool-src"]
                                    [] k = "x" -> "0"
                                    [] k = "y" -> "0"
                                    [] k = "width" -> ToString(imgWidth)
                                    [] k = "height" -> ToString(imgHeight(ratio))
                                    [] OTHER -> StyleOf(node)]),
                        <<>>)>>)
       ELSE Node("svg",
                 Merge(preservedAttrs,
                       [k \in {"viewBox", "style", "iftool-background"} |->
                           CASE k = "viewBox" -> viewBox
                             [] k = "style" -> StyleOf(node)
                             [] OTHER -> node.attrs["iftool-src"]]),
                 <<>>)

\* the node built in the catch block
DefaultNode(rule, node) ==
    LET preservedAttrs == filterPreservedAttrs(node.attrs)
        viewBox == <<"0", "0", "100%", "100%">>
    IN IF rule = "img2image"
       THEN Node("svg",
                 [k \in {"viewBox", "style"} |->
                     IF k = "viewBox" THEN viewBox
                     ELSE <<Decl("display", "block"), Decl("width", "100%")>>],
                 <<Node("image",
                        Merge(preservedAttrs,
                              [k \in {"iftool-href", "x", "y", "width", "height"} |->
                                  CASE k = "iftool-href" -> node.attrs["iftool-src"]
                                    [] k = "x" -> "0"
                                    [] k = "y" -> "0"
                                    [] OTHER -> "100%"]),
                        <<>>)>>)
       ELSE Node("svg",
                 Merge(preservedAttrs,
                       [k \in {"viewBox", "style", "iftool-background"} |->
                           CASE k = "viewBox" -> viewBox
                             [] k = "style" -> StyleOf(node)
                             [] OTHER -> node.attrs["iftool-src"]]),
                 <<>>)

----------------------------------------------------------------------------
(* getImageRatio: how the promise settles on the first event of the image *)

NoOutcome == [ev |-> "none", kind |-> "none", ratio |-> <<0, 0>>]

\* load: naturalWidth x naturalHeight, and the rendered size at width 100px
\* that is used when a natural size is 0
LoadEvents ==
    {[type |-> "load", nw |-> 1080, nh |-> 540, rw |-> 100, rh |-> 50],
     [type |-> "load", nw |-> 0, nh |-> 0, rw |-> 100, rh |-> 200],
     [type |-> "load", nw |-> 0, nh |-> 0, rw |-> 0, rh |-> 0]}

FailEvents ==
    {[type |-> "error", nw |-> 0, nh |-> 0, rw |-> 0, rh |-> 0],
     [type |-> "timeout", nw |-> 0, nh |-> 0, rw |-> 0, rh |-> 0]}

ProbeEvents == LoadEvents \cup FailEvents

\* a promise that would take every settlement it is given
SettleLast(promise, outcome) == outcome

\* a promise takes the first settlement it is given and ignores the rest
Settle(promise, outcome) == IF promise = NoOutcome THEN outcome ELSE promise

\* a probe that was not started
NoProbe == [timer |-> "none", attached |-> FALSE, loading |-> FALSE, promise |-> NoOutcome]

\* getImageRatio up to its return: the img is in the body, the timer runs,
\* the handlers are set and the src is given
StartProbe == [timer |-> "armed", attached |-> TRUE, loading |-> TRUE, promise |-> NoOutcome]

getImageRatio(e) ==
    CASE e.type = "load" ->
            [ev |-> "load", kind |-> "resolve",
             ratio |-> IF e.nw # 0 /\ e.nh # 0 THEN <<e.nw, e.nh>>
                       ELSE IF e.rw # 0 /\ e.rh # 0 THEN <<e.rw, e.rh>>
                       ELSE <<1, 1>>]
      [] e.type = "error" -> [ev |-> "error", kind |-> "reject", ratio |-> <<0, 0>>]
      [] OTHER -> [ev |-> "timeout", kind |-> "reject", ratio |-> <<0, 0>>]

\* the timeout callback of a probe
onTimeout(p) ==
    [timer |-> "fired", attached |-> FALSE, loading |-> p.loading,
     promise |-> Settle(p.promise, getImageRatio([type |-> "timeout"]))]

\* img.onload and img.onerror: clearTimeout on a timer that has fired does
\* nothing
onEvent(p, e) ==
    [timer |-> IF p.timer = "armed" THEN "cleared" ELSE p.timer,
     attached |-> FALSE, loading |-> FALSE,
     promise |-> Settle(p.promise, getImageRatio(e))]

\* the browser delivers e to the probe p
Deliver(p, e) == IF e.type = "timeout" THEN onTimeout(p) ELSE onEvent(p, e)

\* the browser can deliver e to p: the timer still runs, or the img still loads
CanDeliver(p, e) == IF e.type = "timeout" THEN p.timer = "armed" ELSE p.loading

\* an iteration that starts no probe
ProbesNone(targets, i) == {}

\* an iteration that starts the probes of all the matches still to come
ProbesAllAtOnce(targets, i) == i..Len(targets)

\* the probes an iteration starts: the one of the match it works on
ProbesToStart(targets, i) == {i}

\* an iteration without its catch block: the rejection escapes
IterationNoCatch(rule, node, outcome) ==
    IF outcome.kind = "resolve"
    THEN [threw |-> FALSE, node |-> SuccessNode(rule, node, outcome.ratio)]
    ELSE [threw |-> TRUE, node |-> node]

\* what the iteration does with the settled probe: the node it splices in,
\* or the error it lets escape (none: the catch block builds the default)
Iteration(rule, node, outcome) ==
    IF outcome.kind = "resolve"
    THEN [threw |-> FALSE, node |-> SuccessNode(rule, node, outcome.ratio)]
    ELSE [threw |-> FALSE, node |-> DefaultNode(rule, node)]

----------------------------------------------------------------------------
(* compose: objectToDom, XMLSerializer, then the four string repairs *)

NeutralKeys ==
    {"iftool-background", "iftool-href", "iftool-src", "iftool-bg-color",
     "iftool-bg-position", "iftool-bg-size", "iftool-bg-repeat",
     "iftool-bg-attachment", "iftool-bg-origin", "iftool-bg-clip"}

\* a copy of the attributes without the three links, the other neutral
\* attributes left in
FinalAttrsLinksOnly(obj) ==
    LET a == obj.attrs
        f0 == Without(a, {"iftool-background", "iftool-href", "iftool-src"})
        f1 == IF Truthy(a, "iftool-href") THEN Merge(f0, One("href", a["iftool-href"])) ELSE f0
    IN IF Truthy(a, "iftool-src") THEN Merge(f1, One("src", a["iftool-src"])) ELSE f1

\* the attributes objectToDom sets on the element it creates
FinalAttrs(obj) ==
    LET a == obj.attrs
        f0 == Without(a, NeutralKeys)
        s == OrElse(a, "iftool-bg-size", "auto auto")
        newBackgroundStyle ==
            BgShort(a["iftool-background"],
                    OrElse(a, "iftool-bg-color", "transparent"),
                    OrElse(a, "iftool-bg-position", "0% 0%"),
                    IF s # "auto" /\ s # "auto auto" THEN s ELSE "",
                    OrElse(a, "iftool-bg-repeat", "repeat"),
                    OrElse(a, "iftool-bg-attachment", "scroll"),
                    OrElse(a, "iftool-bg-origin", "padding-box"),
                    OrElse(a, "iftool-bg-clip", "border-box"))
        f1 == IF Truthy(a, "iftool-background")
              THEN Merge(f0, One("style", (IF Truthy(f0, "style") THEN f0["style"] ELSE <<>>)
                                          \o <<newBackgroundStyle>>))
              ELSE f0
        f2 == IF Truthy(a, "iftool-href") THEN Merge(f1, One("href", a["iftool-href"])) ELSE f1
    IN IF Truthy(a, "iftool-src") THEN Merge(f2, One("src", a["iftool-src"])) ELSE f2

\* the serializer writes the character & of a text node as &amp;
XmlEscape(c) == IF c = "&" THEN "&amp;" ELSE c

\* objectToDom followed by serializeToString: an element without children is
\* written self-closed
RECURSIVE objectToDom(_)
objectToDom(obj) ==
    IF obj.tag = "wenben"
    THEN <<Text([j \in 1..Len(obj.attrs["#text"]) |-> XmlEscape(obj.attrs["#text"][j])])>>
    ELSE IF obj.tag = "zhushi" THEN <<Comment(obj.attrs["#text"])>>
    ELSE IF obj.children = <<>> THEN <<Self(obj.tag, FinalAttrs(obj))>>
    ELSE <<Open(obj.tag, FinalAttrs(obj))>>
         \o Flatten([i \in 1..Len(obj.children) |-> objectToDom(obj.children[i])])
         \o <<Close(obj.tag)>>

\* index of the first token at or after i that satisfies the test, else 0
FirstOpenRoot(toks) ==
    LET idx == {i \in 1..Len(toks) : toks[i] = Open("div", RootAttrs)} IN
    IF idx = {} THEN 0 ELSE CHOOSE i \in idx : \A j \in idx : i <= j

FirstCloseDiv(toks, from) ==
    LET idx == {i \in from..Len(toks) : toks[i] = Close("div")} IN
    IF idx = {} THEN 0 ELSE CHOOSE i \in idx : \A j \in idx : i <= j

\* xmlString.match(/<div id="iftool">(.*?)<\/div>/s)[1]: what lies between the
\* wrapper's opening tag and the first closing div tag after it
Unwrap(toks) ==
    LET a == FirstOpenRoot(toks)
        b == IF a = 0 THEN 0 ELSE FirstCloseDiv(toks, a + 1)
    IN IF a = 0 \/ b = 0 THEN ThrownText ELSE SubSeq(toks, a + 1, b - 1)

Unescape(toks) ==
    [i \in 1..Len(toks) |->
        [toks[i] EXCEPT !.s = [j \in 1..Len(@) |-> IF @[j] = "&amp;" THEN "&" ELSE @[j]]]]

tagsToFix ==
    {"section", "p", "div", "svg", "iframe", "video",
     "mp-common-clmusic", "mp-common-redpacket", "mp-common-profile",
     "mp-common-videosnap", "mp-common-mpaudio", "mp-common-poi",
     "mp-common-miniprogram", "mp-common-vote"}

\* (<(tags)\s+[^>]*?)/> : a self-closed listed tag that has attributes
FixSelfClosed(toks) ==
    Flatten([i \in 1..Len(toks) |->
        LET t == toks[i] IN
        IF t.k = "self" /\ t.tag \in tagsToFix /\ DOMAIN t.attrs # {}
        THEN <<Open(t.tag, t.attrs), Close(t.tag)>>
        ELSE <<t>>])

\* compose(tree): the text, or ThrownText when match() found nothing.  The
\* serializer attaches no default namespace to an element made by createElement
\* of an XML document, and the first replace removes it where one is attached.
compose(t) ==
    LET inner == Unwrap(objectToDom(t)) IN
    IF inner = ThrownText THEN ThrownText ELSE FixSelfClosed(Unescape(inner))

----------------------------------------------------------------------------
(* calcLayer.  Scores are kept exact: layer and globalScore in hundredths,   *)
(* animateScore in tenths.                                                   *)

\* tag.toLowerCase()
Lower(t) ==
    CASE t = "foreignObject" -> "foreignobject"
      [] t = "animateTransform" -> "animatetransform"
      [] t = "animateMotion" -> "animatemotion"
      [] OTHER -> t

\* parseStyle(styleStr)[key]: the value of the last declaration with that
\* key and a non-empty value, "" for undefined
parseStyle(styleStr, key) ==
    LET idx == {i \in 1..Len(styleStr) : styleStr[i].p = key /\ styleStr[i].v # ""} IN
    IF idx = {} THEN "" ELSE styleStr[SeqMax(idx)].v

isSvgValidContainer(node) == Lower(node.tag) \in {"svg", "g", "foreignObject"}

\* the values of the model that /^0(\s*px|\s*%|\s*rem|\s*em|\s*vh|\s*vw)?$/i accepts
ZeroHeights == {"0", "0px", "0%", "0rem", "0em", "0vh", "0vw"}

\* the values of the model whose parseFloat lies in [0, 0.05]
OpacityMinValues == {"0", "0.02", "0.05"}

isOpacityMinValue(v) == v \in OpacityMinValues

\* the values of the model the negative margin pattern accepts
NegativeMargins == {"-10%", "-1rem", "-0.5em", "-2vh", "-3vw"}

\* the values of the model that Number() reads as a number above 0
PositiveNumbers == {"1", "2", "10"}

isSvgWidthAnimate(svgNode) ==
    /\ Lower(svgNode.tag) = "svg"
    /\ \E i \in 1..Len(svgNode.children) :
          /\ Lower(svgNode.children[i].tag) = "animate"
          /\ "attributeName" \in DOMAIN svgNode.children[i].attrs
          /\ svgNode.children[i].attrs["attributeName"] \in {"width", "WIDTH"}

\* node is the image node, whatever style of the chain styleStr is
calculateBottomScore(styleStr, node) ==
    (IF parseStyle(styleStr, "height") \in ZeroHeights THEN -10 ELSE 0)
    + (IF isOpacityMinValue(parseStyle(styleStr, "opacity")) THEN -2 ELSE 0)
    + (IF "opacity" \in DOMAIN node.attrs /\ isOpacityMinValue(node.attrs["opacity"])
       THEN -2 ELSE 0)

\* the keys read are marginTop and zIndex, as the code spells them
calculateTopScore(styleStr) ==
    (IF parseStyle(styleStr, "marginTop") \in NegativeMargins THEN 10 ELSE 0)
    + (IF parseStyle(styleStr, "transform") \notin {"", "none"} THEN 5 ELSE 0)
    + (IF parseStyle(styleStr, "isolation") = "isolate" THEN 3 ELSE 0)
    + (IF parseStyle(styleStr, "zIndex") \in PositiveNumbers THEN 3 ELSE 0)

RECURSIVE PreOrder(_, _)
PreOrder(node, path) ==
    <<path>> \o Flatten([i \in 1..Len(node.children) |->
                            PreOrder(node.children[i], Append(path, i))])

\* the image link of a node, "" when it has none
ImgUrl(node) ==
    IF Truthy(node.attrs, "iftool-src") THEN node.attrs["iftool-src"]
    ELSE IF Truthy(node.attrs, "iftool-href") THEN node.attrs["iftool-href"]
    ELSE IF Truthy(node.attrs, "iftool-background") THEN node.attrs["iftool-background"]
    ELSE ""

\* [...parentChain, node].reverse(): the paths of the node and its ancestors,
\* the nearest first
ChainNearestFirst(path) == [i \in 1..Len(path) + 1 |-> SubSeq(path, 1, Len(path) + 1 - i)]

\* the nearest svg of the chain that has a width animation: its path, or <<0>>
NoPath == <<0>>

targetAnimateSvg(t, path) ==
    LET chain == ChainNearestFirst(path)
        idx == {i \in 1..Len(chain) : isSvgWidthAnimate(NodeAt(t, chain[i]))}
    IN IF idx = {} THEN NoPath ELSE chain[CHOOSE i \in idx : \A j \in idx : i <= j]

RECURSIVE SetWid(_, _, _)
SetWid(t, path, id) ==
    IF path = <<>> THEN [t EXCEPT !.wid = id]
    ELSE [t EXCEPT !.children[Head(path)] = SetWid(@, Tail(path), id)]

\* one call of traverseCollect on the node at the path, without the recursion
CollectOne(st, path) ==
    LET node == NodeAt(st.t, path)
        imgUrl == ImgUrl(node)
    IN IF imgUrl = "" THEN st
       ELSE
       LET imgRaw == [url |-> imgUrl, path |-> path, globalOrder |-> st.globalOrder]
           q == targetAnimateSvg(st.t, path)
           fresh == q # NoPath /\ NodeAt(st.t, q).wid = 0
           svgId == IF q = NoPath THEN 0
                    ELSE IF fresh THEN st.svgUniqueId + 1 ELSE NodeAt(st.t, q).wid
       IN [t |-> IF fresh THEN SetWid(st.t, q, svgId) ELSE st.t,
           svgUniqueId |-> IF fresh THEN st.svgUniqueId + 1 ELSE st.svgUniqueId,
           globalOrder |-> st.globalOrder + 1,
           allImagesRaw |-> Append(st.allImagesRaw, imgRaw),
           widthSvgMap |-> IF q = NoPath THEN st.widthSvgMap
                           ELSE Merge(st.widthSvgMap,
                                      [k \in {svgId} |->
                                          Append(IF svgId \in DOMAIN st.widthSvgMap
                                                 THEN st.widthSvgMap[svgId] ELSE <<>>,
                                                 imgRaw.globalOrder)])]

RECURSIVE CollectFold(_, _)
CollectFold(st, paths) ==
    IF paths = <<>> THEN st ELSE CollectFold(CollectOne(st, Head(paths)), Tail(paths))

\* traverseCollect(tree): the tree with its scratch ids, the images, the map
traverseCollect(t) ==
    CollectFold([t |-> t, svgUniqueId |-> 0, globalOrder |-> 0,
                 allImagesRaw |-> <<>>, widthSvgMap |-> [k \in {} |-> <<>>]],
                PreOrder(t, <<>>))

\* a clearing that stops at the node it is given
clearSvgTempAttrRootOnly(node) == [node EXCEPT !.wid = 0]

\* a clearing that leaves the first identifier handed out in place
RECURSIVE clearSvgTempAttrAboveFirst(_)
clearSvgTempAttrAboveFirst(node) ==
    [node EXCEPT !.wid = IF @ > 1 THEN 0 ELSE @,
                 !.children = [i \in 1..Len(node.children) |->
                                  clearSvgTempAttrAboveFirst(node.children[i])]]

RECURSIVE clearSvgTempAttr(_)
clearSvgTempAttr(node) ==
    [node EXCEPT !.wid = 0,
                 !.children = [i \in 1..Len(node.children) |-> clearSvgTempAttr(node.children[i])]]

RECURSIVE SumSeq(_)
SumSeq(s) == IF s = <<>> THEN 0 ELSE Head(s) + SumSeq(Tail(s))

\* index, from 0, of the first element equal to x; -1 when there is none
FindIndex(s, x) ==
    LET idx == {i \in 1..Len(s) : s[i] = x} IN
    IF idx = {} THEN -1 ELSE (CHOOSE i \in idx : \A j \in idx : i <= j) - 1

\* parseFloat((100 - imgIndex * 0.05).toFixed(1)) in tenths: toFixed rounds
\* the binary value, which lies below the decimal one for 3 (99.85)
animateTenths(imgIndex) ==
    CASE imgIndex = 0 -> 1000
      [] imgIndex = 1 -> 1000
      [] imgIndex = 2 -> 999
      [] imgIndex = 3 -> 998
      [] imgIndex = 4 -> 998
      [] imgIndex = 5 -> 998
      [] OTHER -> 1000 - (imgIndex \div 2)

\* nearestContainer.parentNode?.children.findIndex(...) || 0: a tree node has
\* the fields tag, attrs and children, and no parentNode
containerIndex(t, containerPath) == 0

\* the record the second pass returns for one image: layer is in hundredths
\* (20 to start with, the four terms, then the global order term
\* (500 - globalOrder) * 0.01, all of it through toFixed(2)), animateScore in
\* tenths, globalScore in hundredths
Detail(url, globalOrder, totalBottomScore, totalTopScore, gfoScore, animateScore) ==
    LET globalScore == 500 - globalOrder IN
    [url |-> url,
     layer |-> 2000 + 100 * totalBottomScore + 100 * totalTopScore + 100 * gfoScore
               + 10 * animateScore + globalScore,
     globalOrder |-> globalOrder,
     totalBottomScore |-> totalBottomScore,
     totalTopScore |-> totalTopScore,
     gfoScore |-> gfoScore,
     animateScore |-> animateScore,
     globalScore |-> globalScore]

\* the detail record of one image (the second pass), read on the marked tree
ImageDetail(mt, map, imgRaw) ==
    LET path == imgRaw.path
        node == NodeAt(mt, path)
        chain == ChainNearestFirst(path)
        \* nodeStyle, then the parents' styles from the root down
        allStyles == <<StyleOf(node)>>
                     \o [i \in 1..Len(path) |-> StyleOf(NodeAt(mt, SubSeq(path, 1, i - 1)))]
        totalBottomScore ==
            SumSeq([i \in 1..Len(allStyles) |-> calculateBottomScore(allStyles[i], node)])
        totalTopScore ==
            SumSeq([i \in 1..Len(allStyles) |-> calculateTopScore(allStyles[i])])
        cont == {i \in 2..Len(chain) : isSvgValidContainer(NodeAt(mt, chain[i]))}
        gfoScore == IF cont = {} THEN 0
                    ELSE 3 * containerIndex(mt, chain[CHOOSE i \in cont : \A j \in cont : i <= j])
        q == targetAnimateSvg(mt, path)
        svgId == IF q = NoPath THEN 0 ELSE NodeAt(mt, q).wid
        svgImgList == IF svgId \in DOMAIN map THEN map[svgId] ELSE <<>>
        imgIndex == FindIndex(svgImgList, imgRaw.globalOrder)
        animateScore == IF q # NoPath /\ imgIndex > -1 THEN animateTenths(imgIndex) ELSE 0
    IN Detail(imgRaw.url, imgRaw.globalOrder, totalBottomScore, totalTopScore, gfoScore,
              animateScore)

\* a comparator that looks at the document order alone
LayerBeforeInDocument(a, b) == a.globalOrder < b.globalOrder

\* the comparator of imagesDetail.sort: a comes before b
LayerBefore(a, b) ==
    IF b.layer # a.layer THEN a.layer > b.layer ELSE a.globalOrder < b.globalOrder

\* the preload fragment
PreloadTokens(urls) ==
    <<Open("section", One("style", <<Decl("display", "block"), Decl("height", "0px !important")>>)),
      Open("svg", One("viewBox", <<"0", "0", "1", "1">>))>>
    \o Flatten([i \in 1..Len(urls) |->
          <<Open("g", EmptyAttrs),
            Open("foreignObject", [k \in {"x", "y", "width", "height"} |->
                                      IF k \in {"x", "y"} THEN "0" ELSE "1"]),
            Open("svg", One("style", <<BgImage(urls[i]), Decl("background-size", "cover"),
                                       Decl("background-repeat", "no-repeat")>>)),
            Close("svg"), Close("foreignObject"), Close("g")>>])
    \o <<Close("svg"), Close("section")>>

FirstN(s, n) == SubSeq(s, 1, IF n < Len(s) THEN n ELSE Len(s))

\* calcLayer(tree, number): what it returns, and the tree object afterwards
calcLayer(t, number) ==
    LET st == traverseCollect(t)
        imagesDetail == SortSeq([i \in 1..Len(st.allImagesRaw) |->
                                    ImageDetail(st.t, st.widthSvgMap, st.allImagesRaw[i])],
                                LayerBefore)
        topLayerImages == FirstN([i \in 1..Len(imagesDetail) |-> imagesDetail[i].url], number)
    IN [result |-> [imagesDetail |-> imagesDetail, finalHtml |-> PreloadTokens(topLayerImages),
                    number |-> number],
        tree |-> clearSvgTempAttr(st.t)]

NoLayer == [imagesDetail |-> <<>>, finalHtml |-> <<>>, number |-> 0]

----------------------------------------------------------------------------
(* The inputs: markup of one optional leading block and one main block *)

RECURSIVE SeqsUpTo(_, _)
SeqsUpTo(S, n) ==
    IF n = 0 THEN {<<>>}
    ELSE LET shorter == SeqsUpTo(S, n - 1) IN
         shorter \cup {Append(q, e) : q \in shorter, e \in S}

PosAttrs(x, y, w, h) ==
    [k \in {"x", "y", "width", "height"} |->
        CASE k = "x" -> x [] k = "y" -> y [] k = "width" -> w [] OTHER -> h]

\* what an svg may hold
SvgKids ==
    {<<Self("image", [k \in {"href", "x", "class", "clip-path"} |->
                         CASE k = "href" -> "u1" [] k = "x" -> "10" [] k = "class" -> "c"
                           [] OTHER -> "p"])>>,
     El("foreignObject", PosAttrs("1", "2", "30", "40"),
        El("svg", One("style", <<BgImage("u1"), Decl("width", "10px")>>), <<>>)),
     El("foreignObject", EmptyAttrs,
        <<Self("img", [k \in {"src", "class"} |-> IF k = "src" THEN "u2" ELSE "k"])>>),
     El("svg", [k \in {"style", "viewBox"} |->
                   IF k = "style" THEN <<BgImage("u2"), Decl("margin-top", "-10%")>>
                   ELSE <<"0", "0", "100", "200">>],
        <<Self("animate", One("attributeName", "width")),
          Self("image", [k \in {"href", "style"} |->
                            IF k = "href" THEN "u1"
                            ELSE <<Decl("height", "0px"), Decl("opacity", "0.02")>>])>>),
     <<Self("animate", One("attributeName", "width"))>>,
     <<Self("animate", [k \in {"attributeName", "by"} |->
                           IF k = "by" THEN "-1" ELSE "height"])>>}

\* what a section may hold
SectionKids ==
    {<<Self("img", One("src", "u1"))>>,
     <<Self("img", [k \in {"src", "width"} |-> IF k = "src" THEN "u2" ELSE "100"])>>,
     <<Text(<<"a">>)>>,
     El("p", EmptyAttrs, <<>>),
     <<Comment(<<"c">>), Self("img", One("src", ""))>>}

SvgAttrs ==
    {One("viewBox", <<"0", "0", "300", "400">>),
     One("style", <<BgImage("u1"), Decl("background-size", "cover"),
                    Decl("transform", "scale(1)"), Decl("opacity", "0.02")>>)}

\* a foreignObject with a background of its own that holds an empty svg with
\* a background, an img, and a section with a background colour and a z-index
\* around another svg with a background and an opacity attribute
BridgeBlock ==
    El("svg", One("viewBox", <<"0", "0", "300", "400">>),
       El("foreignObject",
          [k \in {"class", "data-id", "x", "style"} |->
              CASE k = "class" -> "f" [] k = "data-id" -> "d" [] k = "x" -> "5"
                [] OTHER -> <<BgImage("u2"), Decl("width", "1px"), Decl("color", "red")>>],
          El("svg", [k \in {"class", "style"} |->
                        IF k = "class" THEN "s"
                        ELSE <<BgImage("u1"), Decl("width", "10px"), Decl("height", "2px")>>],
             <<>>)
          \o <<Self("img", One("src", "u2"))>>
          \o El("section",
                One("style", <<Decl("background-color", "red"), Decl("z-index", "2")>>),
                El("svg", [k \in {"opacity", "style"} |->
                              IF k = "opacity" THEN "0.02" ELSE <<BgImage("u1")>>],
                   <<>>))))

MainBlocks ==
    {El("svg", a, Flatten(kids)) : a \in SvgAttrs, kids \in SeqsUpTo(SvgKids, MaxKids)}
    \cup {El("section", EmptyAttrs, Flatten(kids)) : kids \in SeqsUpTo(SectionKids, MaxKids)}
    \cup {BridgeBlock}

LeadBlocks ==
    {<<>>,
     El("div", EmptyAttrs, <<Text(<<"a", "&amp;">>)>>)}

Inputs == {lead \o main : lead \in LeadBlocks, main \in MainBlocks}

TopNs == {1, 3}

----------------------------------------------------------------------------
(* The call chain *)

Last(s) == IF s = <<>> THEN "" ELSE s[Len(s)]

RuleNames == SyncRules \cup AsyncRules \cup {"calcLayer"}

OpsDone == Cardinality({i \in 1..Len(hist) : hist[i] \in RuleNames})

IsTree(t) == t.tag \notin {"#none", "#throw"}

\* a rule or calcLayer may be called: the tree exists, no rule is suspended,
\* the tree has not been handed to compose
CanCall ==
    /\ pc = "idle"
    /\ IsTree(tree)
    /\ hist # <<>> /\ Last(hist) # "compose"
    /\ OpsDone < MaxOps

Init ==
    /\ input \in Inputs
    /\ code = input
    /\ tree = NoTree
    /\ prev = NoTree
    /\ ret = "none"
    /\ out = NoText
    /\ hist = <<>>
    /\ pc = "idle"
    /\ targetImgs = <<>>
    /\ cur = 0
    /\ inflight = {}
    /\ settled = NoOutcome
    /\ probes = <<>>
    /\ replaced = <<>>
    /\ layer = NoLayer
    /\ layer0 = NoLayer

asyncVars == <<pc, targetImgs, cur, inflight, settled, probes, replaced>>

\* parse(code), on the input or on the text compose returned
Parse ==
    /\ pc = "idle"
    /\ IF hist = <<>> THEN TRUE ELSE Last(hist) = "compose" /\ out # ThrownText
    /\ tree' = parse(code)
    /\ prev' = NoTree
    /\ ret' = "none"
    /\ hist' = Append(hist, "parse")
    /\ UNCHANGED <<input, code, out, asyncVars, layer, layer0>>

RuleCall(rule) ==
    /\ CanCall
    /\ prev' = tree
    /\ tree' = ApplyRule(rule, tree)
    /\ ret' = Returned(rule)
    /\ hist' = Append(hist, rule)
    /\ UNCHANGED <<input, code, out, asyncVars, layer, layer0>>

Fosvg2image == RuleCall("fosvg2image")
Svg2image == RuleCall("svg2image")
Svg2img == RuleCall("svg2img")
Image2img == RuleCall("image2img")
Image2svg == RuleCall("image2svg")
Foimg2image == RuleCall("foimg2image")

\* the call runs to its first await: the collecting walk and, when something
\* was collected, the start of the first probe
AsyncCall(rule) ==
    /\ CanCall
    /\ prev' = tree
    /\ hist' = Append(hist, rule)
    /\ replaced' = <<>>
    /\ settled' = NoOutcome
    /\ targetImgs' = Targets(rule, tree)
    /\ IF targetImgs' = <<>>
       THEN /\ pc' = "idle"
            /\ cur' = 0
            /\ inflight' = {}
            /\ ret' = "tree"
       ELSE /\ pc' = rule
            /\ cur' = 1
            /\ inflight' = ProbesToStart(targetImgs', 1)
            /\ ret' = "pending"
    /\ probes' = IF targetImgs' = <<>> THEN <<>>
                  ELSE [i \in 1..Len(targetImgs') |->
                           IF i \in inflight' THEN StartProbe ELSE NoProbe]
    /\ UNCHANGED <<input, code, tree, out, layer, layer0>>

Img2image == AsyncCall("img2image")
Img2svg == AsyncCall("img2svg")

\* the image of the awaited probe loads, fails or times out
ProbeSettle ==
    /\ pc \in AsyncRules
    /\ settled = NoOutcome
    /\ cur \in inflight
    /\ \E e \in ProbeEvents :
          /\ CanDeliver(probes[cur], e)
          /\ probes' = [probes EXCEPT ![cur] = Deliver(@, e)]
          /\ settled' = probes'[cur].promise
    /\ inflight' = inflight \ {cur}
    /\ UNCHANGED <<input, code, tree, prev, ret, out, hist, pc, targetImgs, cur,
                   replaced, layer, layer0>>

\* an event of a probe whose promise is settled already: the load or the
\* error of an img after its timeout
LateEvent ==
    /\ \E i \in 1..Len(probes) : \E e \in ProbeEvents :
          /\ probes[i].promise # NoOutcome
          /\ CanDeliver(probes[i], e)
          /\ probes' = [probes EXCEPT ![i] = Deliver(@, e)]
    /\ UNCHANGED <<input, code, tree, prev, ret, out, hist, pc, targetImgs, cur,
                   inflight, settled, replaced, layer, layer0>>

\* the rule resumes after its await: it splices the new node in and goes on
\* to the next match, or returns
Resume ==
    /\ pc \in AsyncRules
    /\ settled # NoOutcome
    /\ LET site == targetImgs[cur]
           it == Iteration(pc, site.node, settled)
       IN IF it.threw
          THEN /\ pc' = "idle"
               /\ ret' = "rejected"
               /\ probes' = <<>>
               /\ UNCHANGED <<tree, replaced, cur, inflight>>
          ELSE /\ tree' = ReplaceAt(tree, site.path, it.node)
               /\ replaced' = Append(replaced, cur)
               /\ IF cur < Len(targetImgs)
                  THEN /\ cur' = cur + 1
                       /\ inflight' = inflight \cup ProbesToStart(targetImgs, cur + 1)
                       /\ probes' = [i \in 1..Len(probes) |->
                                        IF i \in ProbesToStart(targetImgs, cur + 1)
                                        THEN StartProbe ELSE probes[i]]
                       /\ UNCHANGED <<pc, ret>>
                  ELSE /\ pc' = "idle"
                       /\ ret' = "tree"
                       /\ probes' = <<>>
                       /\ UNCHANGED <<cur, inflight>>
    /\ settled' = NoOutcome
    /\ UNCHANGED <<input, code, prev, out, hist, targetImgs, layer, layer0>>

CalcLayer ==
    /\ CanCall
    /\ \E number \in TopNs :
          LET r == calcLayer(tree, number) IN
          /\ tree' = r.tree
          /\ layer' = r.result
    /\ layer0' = layer
    /\ prev' = tree
    /\ ret' = "layer"
    /\ hist' = Append(hist, "calcLayer")
    /\ UNCHANGED <<input, code, out, asyncVars>>

Compose ==
    /\ pc = "idle"
    /\ IsTree(tree)
    /\ \A i \in 1..Len(hist) : hist[i] # "compose"
    /\ out' = compose(tree)
    /\ code' = out'
    /\ hist' = Append(hist, "compose")
    /\ UNCHANGED <<input, tree, prev, ret, asyncVars, layer, layer0>>

Next ==
    \/ Parse
    \/ Fosvg2image
    \/ Svg2image
    \/ Svg2img
    \/ Image2img
    \/ Image2svg
    \/ Foimg2image
    \/ Img2image
    \/ Img2svg
    \/ ProbeSettle
    \/ LateEvent
    \/ Resume
    \/ CalcLayer
    \/ Compose

Spec == Init /\ [][Next]_vars

\* the markup is one main block, nothing before it
InitBlock == Init /\ input \in MainBlocks

\* the rewriting rules alone: parse, then rule calls with their probes
NextRules ==
    \/ Parse
    \/ Fosvg2image
    \/ Svg2image
    \/ Svg2img
    \/ Image2img
    \/ Image2svg
    \/ Foimg2image
    \/ Img2image
    \/ Img2svg
    \/ ProbeSettle
    \/ Resume

SpecRules == InitBlock /\ [][NextRules]_vars

\* the two rules that probe their images, with every event that can reach a
\* probe, those after its promise was settled included
NextProbe ==
    \/ Parse
    \/ Img2image
    \/ Img2svg
    \/ ProbeSettle
    \/ LateEvent
    \/ Resume

SpecProbe == InitBlock /\ [][NextProbe]_vars

\* the same steps when the browser keeps its word: a probe that is awaited is
\* settled in the end (by its timer after 5 s if by nothing else), and the
\* continuation of a settled await is run
SpecLive == InitBlock /\ [][NextProbe]_vars /\ WF_vars(ProbeSettle) /\ WF_vars(Resume)

\* the same steps, followed for what becomes of the asset attributes
SpecAssets == InitBlock /\ [][NextRules]_vars

\* scoring: parse, synchronous rewriting, then calcLayer
NextLayer ==
    \/ Parse
    \/ Fosvg2image
    \/ Svg2image
    \/ Svg2img
    \/ Image2img
    \/ Image2svg
    \/ Foimg2image
    \/ CalcLayer

SpecLayer == InitBlock /\ [][NextLayer]_vars

\* the second pass, the sort and the fragment of calcLayer on the records
\* the first pass collected from a long document, of which two images are
\* followed: their scores (gfoScore is 0, see containerIndex), their place
\* in the width animated svg (-1: in none) and their globalOrder
BottomSums == {0, -2, -10, -12}

TopSums == {0, 5, 8}

GroupPlaces == {-1, 0, 2}

GlobalOrders == {0, 1, 101, 250, 499}

CollectedImages ==
    {r \in [url : {"u1", "u2"}, globalOrder : GlobalOrders, bottom : BottomSums,
            top : TopSums, place : GroupPlaces] : r.place <= r.globalOrder}

DetailOf(r) ==
    Detail(r.url, r.globalOrder, r.bottom, r.top, 0,
           IF r.place > -1 THEN animateTenths(r.place) ELSE 0)

RankImages ==
    /\ layer = NoLayer
    /\ \E a, b \in CollectedImages, number \in TopNs :
          /\ a.globalOrder < b.globalOrder
          /\ LET imagesDetail == SortSeq(<<DetailOf(a), DetailOf(b)>>, LayerBefore) IN
             layer' = [imagesDetail |-> imagesDetail,
                       finalHtml |-> PreloadTokens(FirstN([i \in 1..2 |-> imagesDetail[i].url],
                                                          number)),
                       number |-> number]
    /\ UNCHANGED <<input, code, tree, prev, ret, out, hist, asyncVars, layer0>>

InitScore == Init /\ input = El("section", EmptyAttrs, <<>>)

SpecScore == InitScore /\ [][RankImages]_vars

----------------------------------------------------------------------------
(* Properties *)

Rules == SyncRules \cup AsyncRules

\* the call that was made last has returned
Returns(rule) == pc = "idle" /\ hist # <<>> /\ Last(hist) = rule

\* the last two calls were both of this rule, and both have returned
Twice(rule) == Returns(rule) /\ Len(hist) >= 2 /\ hist[Len(hist) - 1] = rule

\* C1: for each of the eight rules R and every tree T, applying R to R(T)
\* changes nothing: when R has just been run twice in a row, the tree after
\* the second run is the tree the second run was given
C1_RuleIdempotent == \A rule \in Rules : Twice(rule) => tree = prev

\* the fallback shape and the computed shapes of a replacement's viewBox
FallbackViewBox == <<"0", "0", "100%", "100%">>

ComputedViewBoxes ==
    {<<"0", "0", ToString(imgWidth), ToString(imgHeight(getImageRatio(e).ratio))>> :
        e \in LoadEvents}

\* the node n is a complete svg replacement of the raster img under the rule
CompleteReplacement(rule, img, n) ==
    /\ n.tag = "svg"
    /\ "viewBox" \in DOMAIN n.attrs
    /\ n.attrs["viewBox"] \in ComputedViewBoxes \cup {FallbackViewBox}
    /\ IF rule = "img2image"
       THEN /\ Len(n.children) = 1
            /\ n.children[1].tag = "image"
            /\ "iftool-href" \in DOMAIN n.children[1].attrs
            /\ n.children[1].attrs["iftool-href"] = img.attrs["iftool-src"]
            /\ n.children[1].attrs["width"] = n.attrs["viewBox"][3]
            /\ n.children[1].attrs["height"] = n.attrs["viewBox"][4]
       ELSE /\ n.children = <<>>
            /\ "iftool-background" \in DOMAIN n.attrs
            /\ n.attrs["iftool-background"] = img.attrs["iftool-src"]

\* C2: whatever the probes do (resolve, reject on error, reject on timeout),
\* img2image and img2svg never reject, and when they return every collected
\* site holds a complete svg replacement that carries the raster's URL
C2_ProbeFailureRecovered ==
    /\ ret # "rejected"
    /\ \A rule \in AsyncRules :
          Returns(rule) =>
             /\ ret = "tree"
             /\ \A i \in 1..Len(targetImgs) :
                   CompleteReplacement(rule, targetImgs[i].node,
                                       NodeAt(tree, targetImgs[i].path))

\* an async rule has returned after a probe failed: a site holds the fallback
C2_Witness ==
    \E rule \in AsyncRules :
       /\ Returns(rule)
       /\ \E i \in 1..Len(targetImgs) :
             NodeAt(tree, targetImgs[i].path).attrs["viewBox"] = FallbackViewBox

\* document pre-order on paths: an ancestor before its descendants, a left
\* sibling's subtree before a right sibling's
RECURSIVE DocBefore(_, _)
DocBefore(p, q) ==
    IF p = <<>> THEN q # <<>>
    ELSE IF q = <<>> THEN FALSE
    ELSE IF Head(p) # Head(q) THEN Head(p) < Head(q)
    ELSE DocBefore(Tail(p), Tail(q))

\* an invocation of an async rule is under way or has just returned
InAsync == pc \in AsyncRules \/ \E rule \in AsyncRules : Returns(rule)

\* the rule whose invocation InAsync speaks of
AsyncRule == IF pc \in AsyncRules THEN pc ELSE Last(hist)

\* the sites of the nodes at or below node that fit the trigger pattern of
\* the async rule
RECURSIVE MatchSites(_, _, _, _)
MatchSites(rule, node, parent, path) ==
    (IF (IF rule = "img2image" THEN img2imageMatches(node, parent)
         ELSE img2svgMatches(node, parent))
     THEN {path} ELSE {})
    \cup UNION {MatchSites(rule, node.children[i], node, Append(path, i)) :
                  i \in 1..Len(node.children)}

\* C3: within one invocation of img2image or img2svg the matches are all
\* collected on the tree as it was given (every match of it, in document
\* pre-order), and are replaced strictly in collection order: at any moment
\* the replaced matches are the first ones and the others are still untouched
C3_ReplacementOrder ==
    InAsync =>
       /\ \A i \in 1..Len(targetImgs) :
             targetImgs[i].node = NodeAt(prev, targetImgs[i].path)
       /\ {targetImgs[i].path : i \in 1..Len(targetImgs)}
             = MatchSites(AsyncRule, prev, NoTree, <<>>)
       /\ \A i, j \in 1..Len(targetImgs) :
             i < j => DocBefore(targetImgs[i].path, targetImgs[j].path)
       /\ replaced = [i \in 1..Len(replaced) |-> i]
       /\ \A i \in 1..Len(targetImgs) :
             IF i <= Len(replaced)
             THEN NodeAt(tree, targetImgs[i].path).tag = "svg"
             ELSE NodeAt(tree, targetImgs[i].path) = targetImgs[i].node

\* two matches were replaced, the first after a failed probe and the second
\* after a probe that resolved
C3_Witness ==
    /\ \E rule \in AsyncRules : Returns(rule)
    /\ replaced = <<1, 2>>
    /\ NodeAt(tree, targetImgs[1].path).attrs["viewBox"] = FallbackViewBox
    /\ NodeAt(tree, targetImgs[2].path).attrs["viewBox"] \in ComputedViewBoxes

\* C4: within one invocation of img2image or img2svg at most one probe is
\* pending, and it is the probe of the first match not yet replaced: the
\* probe of match k+1 is not started before match k is replaced
C4_OneProbeInFlight ==
    /\ Cardinality(inflight) <= 1
    /\ \A k \in inflight : pc \in AsyncRules /\ k = cur /\ Len(replaced) = k - 1

\* the probe of the second match is pending and the first match is replaced
C4_Witness ==
    /\ pc \in AsyncRules
    /\ inflight = {2}
    /\ replaced = <<1>>
    /\ Len(targetImgs) >= 2

\* C5: getImageRatio never rejects: when the image fails to load or the
\* timeout fires, its promise resolves to the fallback ratio 1
C5_ProbeResolvesToOne ==
    settled.ev \in {"error", "timeout"} =>
        settled.kind = "resolve" /\ settled.ratio = <<1, 1>>

\* the input is left as it is by every preprocessing pass before wrapRoot
NoNormalization(x) == preprocess(x) = wrapRoot(x)

\* the input carries a resource: a src, an href or a background url
HasResource(x) ==
    \E i \in 1..Len(x) :
       \/ DOMAIN x[i].attrs \cap {"src", "href"} # {}
       \/ /\ "style" \in DOMAIN x[i].attrs
          /\ \E j \in 1..Len(x[i].attrs["style"]) : x[i].attrs["style"][j].url # ""

\* C6: for every input x that triggers no preprocessing normalization and
\* carries no resource attribute, compose(parse(x)) = x, nested div elements,
\* whitelisted entities and attribute-less elements included
C6_RoundTrip ==
    (hist = <<"parse", "compose">> /\ NoNormalization(input) /\ ~HasResource(input))
    => out = input

\* the sites of the image-reference leaves with a migrated href
ImageSites(t) ==
    LET po == PreOrder(t, <<>>) IN
    {po[k] : k \in {j \in 1..Len(po) :
                      /\ po[j] # <<>>
                      /\ ImageMatches(NodeAt(t, po[j]),
                                      NodeAt(t, SubSeq(po[j], 1, Len(po[j]) - 1)))}}

\* b is an image node equivalent to the image node a: the same URL, a's
\* positional attributes, a's allow-listed attributes
EquivalentImage(a, b) ==
    /\ b.tag = "image"
    /\ "iftool-href" \in DOMAIN b.attrs
    /\ b.attrs["iftool-href"] = a.attrs["iftool-href"]
    /\ \A k \in DOMAIN a.attrs \cap {"x", "y", "width", "height"} :
          k \in DOMAIN b.attrs /\ b.attrs[k] = a.attrs[k]
    /\ \A k \in DOMAIN filterPreservedAttrs(a.attrs) :
          k \in DOMAIN b.attrs /\ b.attrs[k] = a.attrs[k]

\* C7: image2svg, then compose and parse, then fosvg2image leave at the
\* position of every image-reference leaf of the parsed input an image node
\* equivalent to it
C7_InversePairing ==
    hist = <<"parse", "image2svg", "compose", "parse", "fosvg2image">> =>
       LET orig == parse(input) IN
       \A q \in ImageSites(orig) : EquivalentImage(NodeAt(orig, q), NodeAt(tree, q))

RECURSIVE NoScratch(_)
NoScratch(n) == n.wid = 0 /\ \A i \in 1..Len(n.children) : NoScratch(n.children[i])

\* C8: after calcLayer returns the tree is the tree it was given, tag by tag,
\* attribute by attribute, child by child, and no node carries __widthSvgId__
C8_ScorerLeavesTree == Returns("calcLayer") => tree = prev /\ NoScratch(tree)

\* calcLayer has returned on a tree where it marked a width-animated svg:
\* an image got its score by its place in the group
C8_Witness ==
    /\ Returns("calcLayer")
    /\ \E i \in 1..Len(layer.imagesDetail) : layer.imagesDetail[i].animateScore > 0

DetailFields ==
    {"url", "layer", "globalOrder", "totalBottomScore", "totalTopScore", "gfoScore",
     "animateScore", "globalScore"}

\* C9: two successive calcLayer calls with the same topN on the same tree
\* return the same imagesDetail (order, url, globalOrder, scores) and the same
\* finalHtml, and an imagesDetail entry has the score fields and no other
C9_ScoringDeterministic ==
    (Twice("calcLayer") /\ layer.number = layer0.number) =>
       /\ layer.imagesDetail = layer0.imagesDetail
       /\ layer.finalHtml = layer0.finalHtml
       /\ \A i \in 1..Len(layer.imagesDetail) : DOMAIN layer.imagesDetail[i] = DetailFields

\* calcLayer ran twice with the same topN on a tree with two width-animated
\* svgs and three images
C9_Witness ==
    /\ Twice("calcLayer")
    /\ layer.number = layer0.number
    /\ Len(layer.imagesDetail) >= 3
    /\ Cardinality({i \in 1..Len(layer.imagesDetail) :
                      layer.imagesDetail[i].animateScore > 0}) >= 3

\* C10: each of the eight rules returns (the async ones: resolves to) the tree
\* it was given
C10_RuleReturnsTree == \A rule \in Rules : Returns(rule) => ret = "tree"

----------------------------------------------------------------------------
\* the terms of a detail record other than the global order term, in hundredths
NonTiebreak(d) ==
    2000 + 100 * d.totalBottomScore + 100 * d.totalTopScore + 100 * d.gfoScore
    + 10 * d.animateScore

\* C11: the global order term is a weak tiebreak: of two images of a document
\* of at most 500 images, the one whose other terms sum to at least 1 more
\* has the strictly higher final score, whatever their globalOrder
C11_TiebreakIsWeak ==
    \A i, j \in 1..Len(layer.imagesDetail) :
        NonTiebreak(layer.imagesDetail[i]) >= NonTiebreak(layer.imagesDetail[j]) + 100
        => layer.imagesDetail[i].layer > layer.imagesDetail[j].layer

----------------------------------------------------------------------------
\* the paths of the nodes of t that carry an image link, in document order
TrackedPaths(t) ==
    SelectSeq(PreOrder(t, <<>>), LAMBDA path : ImgUrl(NodeAt(t, path)) # "")

\* how many styles of the node at the path and of its ancestors declare a
\* negative margin-top in %, rem, em, vh or vw
MarginTopStyles(t, path) ==
    Cardinality({j \in 0..Len(path) :
                    parseStyle(StyleOf(NodeAt(t, SubSeq(path, 1, j))), "margin-top")
                        \in NegativeMargins})

\* C12: every style of an image and of its ancestors that declares a negative
\* margin-top in a unit other than px adds 10 to the image's top additions
C12_MarginTopAddition ==
    Returns("calcLayer") =>
        \A i \in 1..Len(layer.imagesDetail) :
            LET d == layer.imagesDetail[i] IN
            d.totalTopScore >= 10 * MarginTopStyles(prev, TrackedPaths(prev)[d.globalOrder + 1])

----------------------------------------------------------------------------
\* the index, from 0 and among its own siblings, of the nearest ancestor of
\* the node at the path that is an svg, a g or a foreignObject; -1 when the
\* node has no such ancestor
NearestContainerIndex(t, path) ==
    LET anc == {j \in 0..Len(path) - 1 :
                   NodeAt(t, SubSeq(path, 1, j)).tag \in {"svg", "g", "foreignObject"}} IN
    IF anc = {} THEN -1
    ELSE LET j == SeqMax(anc) IN IF j = 0 THEN 0 ELSE path[j] - 1

\* C13: gfoScore is 3 times the index among its siblings of the nearest
\* ancestor that is an svg, a g or a foreignObject, and 0 without one
C13_ContainerOrder ==
    Returns("calcLayer") =>
        \A i \in 1..Len(layer.imagesDetail) :
            LET d == layer.imagesDetail[i]
                idx == NearestContainerIndex(prev, TrackedPaths(prev)[d.globalOrder + 1])
            IN d.gfoScore = IF idx = -1 THEN 0 ELSE 3 * idx

----------------------------------------------------------------------------
\* the path of the nearest svg that has a direct animate child on width,
\* among the node at the path and its ancestors; NoPath when there is none
WidthGroup(t, path) ==
    LET grp == {j \in 0..Len(path) :
                   LET n == NodeAt(t, SubSeq(path, 1, j)) IN
                   /\ n.tag = "svg"
                   /\ \E c \in 1..Len(n.children) :
                         /\ n.children[c].tag = "animate"
                         /\ "attributeName" \in DOMAIN n.children[c].attrs
                         /\ n.children[c].attrs["attributeName"] = "width"} IN
    IF grp = {} THEN NoPath ELSE SubSeq(path, 1, SeqMax(grp))

\* C14: of two images of the same width animated svg, the one later in
\* globalOrder has the higher animated-width term, and no term exceeds 100
C14_LaterScoresHigher ==
    Returns("calcLayer") =>
        \A i, j \in 1..Len(layer.imagesDetail) :
            LET a == layer.imagesDetail[i]
                b == layer.imagesDetail[j]
                paths == TrackedPaths(prev)
            IN /\ a.globalOrder < b.globalOrder
               /\ WidthGroup(prev, paths[a.globalOrder + 1]) # NoPath
               /\ WidthGroup(prev, paths[a.globalOrder + 1])
                      = WidthGroup(prev, paths[b.globalOrder + 1])
               => a.animateScore < b.animateScore /\ b.animateScore <= 1000

----------------------------------------------------------------------------
\* the tokens of the fragment between the opening and the closing of its
\* section and svg
FragmentBody(html) == SubSeq(html, 3, Len(html) - 2)

\* the six tokens from position 6k - 5 of the body are one triple g >
\* foreignObject > svg whose svg has the url as its background image
IsTriple(body, k, url) ==
    LET at(o) == body[6 * (k - 1) + o] IN
    /\ at(1).k = "open" /\ at(1).tag = "g"
    /\ at(2).k = "open" /\ at(2).tag = "foreignObject"
    /\ at(3).k = "open" /\ at(3).tag = "svg"
    /\ \E i \in 1..Len(at(3).attrs["style"]) :
          /\ at(3).attrs["style"][i].p = "background-image"
          /\ at(3).attrs["style"][i].url = url
    /\ at(4) = Close("svg") /\ at(5) = Close("foreignObject") /\ at(6) = Close("g")

\* C15: imagesDetail holds every tracked image once, by descending layer and,
\* among equal layers, ascending globalOrder; the fragment is one triple
\* g > foreignObject > svg for each of the first min(number, n) of them, in
\* that order, and nothing else
C15_RankingSelection ==
    Returns("calcLayer") =>
        LET d == layer.imagesDetail
            paths == TrackedPaths(prev)
            n == Len(paths)
            m == IF layer.number < n THEN layer.number ELSE n
            body == FragmentBody(layer.finalHtml)
        IN /\ Len(d) = n
           /\ {d[i].globalOrder : i \in 1..n} = 0..n - 1
           /\ \A i \in 1..n : d[i].url = ImgUrl(NodeAt(prev, paths[d[i].globalOrder + 1]))
           /\ \A i, j \in 1..n :
                 i < j => \/ d[i].layer > d[j].layer
                          \/ d[i].layer = d[j].layer /\ d[i].globalOrder < d[j].globalOrder
           /\ Len(body) = 6 * m
           /\ \A k \in 1..m : IsTriple(body, k, d[k].url)

\* calcLayer returned a ranking that is not the document order and a fragment
\* that leaves tracked images out
C15_Witness ==
    /\ Returns("calcLayer")
    /\ layer.number < Len(layer.imagesDetail)
    /\ \E i, j \in 1..Len(layer.imagesDetail) :
          /\ i < j
          /\ layer.imagesDetail[i].globalOrder > layer.imagesDetail[j].globalOrder
          /\ layer.imagesDetail[i].url # layer.imagesDetail[j].url

----------------------------------------------------------------------------
\* C16: in the text compose returns, no element of the list of tags that must
\* be closed explicitly is self-closed, whether it has attributes or not
C16_ExplicitClosing ==
    (hist # <<>> /\ Last(hist) = "compose")
    => \A i \in 1..Len(out) : ~(out[i].k = "self" /\ out[i].tag \in tagsToFix)

----------------------------------------------------------------------------
\* the style holds a background declaration
HasBackground(attrs) ==
    /\ "style" \in DOMAIN attrs
    /\ \E i \in 1..Len(attrs["style"]) : attrs["style"][i].p \in BgPropNames

\* the native asset attributes a set of attributes holds
NativeOf(attrs) ==
    (DOMAIN attrs \cap {"href", "src"}) \cup (IF HasBackground(attrs) THEN {"background"} ELSE {})

\* the node carries a neutral asset attribute together with its native one
Coexist(attrs) ==
    \/ "iftool-href" \in DOMAIN attrs /\ "href" \in DOMAIN attrs
    \/ "iftool-src" \in DOMAIN attrs /\ "src" \in DOMAIN attrs
    \/ "iftool-background" \in DOMAIN attrs /\ HasBackground(attrs)

\* some node of the tree carries a neutral asset attribute together with its
\* native one
RECURSIVE CoexistIn(_)
CoexistIn(node) ==
    Coexist(node.attrs) \/ \E i \in 1..Len(node.children) : CoexistIn(node.children[i])

\* the native asset attributes the nodes of the tree hold
RECURSIVE NativeIn(_)
NativeIn(node) ==
    NativeOf(node.attrs) \cup UNION {NativeIn(node.children[i]) : i \in 1..Len(node.children)}

\* C17: between parse and compose no node carries a neutral asset attribute
\* together with its native counterpart, no rule writes a native href, src or
\* background that the tree it was given did not hold, and the text compose
\* makes of the tree parse built or a rule changed holds no iftool-* attribute
C17_NeutralNativeExclusive ==
    IsTree(tree) =>
        /\ ~CoexistIn(tree)
        /\ (hist # <<>> /\ Last(hist) \in Rules) => NativeIn(tree) \subseteq NativeIn(prev)
        /\ (pc = "idle" /\ tree # prev)
              => LET text == compose(tree) IN
                 \A i \in 1..Len(text) : DOMAIN text[i].attrs \cap NeutralKeys = {}

\* the attribute sets of the nodes of a tree
RECURSIVE AttrsIn(_)
AttrsIn(node) ==
    {node.attrs} \cup UNION {AttrsIn(node.children[i]) : i \in 1..Len(node.children)}

\* a rule has rewritten the tree, the tree holds neutral attributes, an
\* orphaned iftool-bg-* among them, and compose writes native ones from them
C17_Witness ==
    /\ \E rule \in Rules : Returns(rule)
    /\ tree # prev
    /\ \E a \in AttrsIn(tree) :
          "iftool-bg-size" \in DOMAIN a /\ "iftool-background" \notin DOMAIN a
    /\ \E a \in AttrsIn(tree) : "iftool-href" \in DOMAIN a
    /\ \E i \in 1..Len(compose(tree)) : "href" \in DOMAIN compose(tree)[i].attrs

----------------------------------------------------------------------------
\* the asset attribute the trigger pattern of a rule asks for
AssetOf(rule) ==
    CASE rule \in {"fosvg2image", "svg2image", "svg2img"} -> "iftool-background"
      [] rule \in {"image2img", "image2svg"} -> "iftool-href"
      [] OTHER -> "iftool-src"

\* some node of the tree carries the attribute with a value that is not empty
RECURSIVE CarriesAsset(_, _)
CarriesAsset(node, key) ==
    \/ Truthy(node.attrs, key)
    \/ \E i \in 1..Len(node.children) : CarriesAsset(node.children[i], key)

\* the tags of the nodes of a tree
RECURSIVE TagsIn(_)
TagsIn(node) == {node.tag} \cup UNION {TagsIn(node.children[i]) : i \in 1..Len(node.children)}

\* C19: a rule called on a tree none of whose nodes carries the asset
\* attribute the rule asks for, or only with an empty value, ends without an
\* error, without a probe, and leaves the tree as it was
C19_NoAssetNoMatch ==
    \A rule \in Rules :
        (hist # <<>> /\ Last(hist) = rule /\ ~CarriesAsset(prev, AssetOf(rule)))
        => /\ pc = "idle"
           /\ ret \in {"tree", "undefined"}
           /\ tree = prev

\* img2svg returned on a tree that holds a comment leaf and an img whose
\* iftool-src is empty, and no other img
C19_Witness ==
    /\ Returns("img2svg")
    /\ ~CarriesAsset(prev, "iftool-src")
    /\ "zhushi" \in TagsIn(prev)
    /\ \E a \in AttrsIn(prev) : "iftool-src" \in DOMAIN a /\ a["iftool-src"] = ""

----------------------------------------------------------------------------
\* q lies below p
Below(p, q) == Len(q) > Len(p) /\ SubSeq(q, 1, Len(p)) = p

\* C20: the walk a rule makes calls the callback in pre-order, with no
\* parentInfo for the root and for it alone, and otherwise with the parent
\* and the index at which the parent holds the node when the call is made;
\* nothing below a node on which the callback returned true is visited, and
\* every child of a visited node on which it did not is visited exactly once,
\* the siblings that follow a replaced node included
C20_TraversalDiscipline ==
    \A rule \in Rules :
        (hist # <<>> /\ Last(hist) = rule) =>
            LET L == Visits(rule, prev) IN
            /\ L # <<>> /\ L[1].path = <<>>
            /\ \A i, j \in 1..Len(L) : i < j => DocBefore(L[i].path, L[j].path)
            /\ \A i \in 1..Len(L) :
                  /\ L[i].parentInfo = NoParentInfo <=> L[i].path = <<>>
                  /\ L[i].path # <<>> =>
                        L[i].parentInfo.parentNode.children[L[i].parentInfo.childIndex + 1]
                            = L[i].node
                  /\ L[i].stop => \A j \in 1..Len(L) : ~Below(L[i].path, L[j].path)
                  /\ ~L[i].stop =>
                        \A c \in 1..Len(L[i].node.children) :
                            Cardinality({j \in 1..Len(L) : L[j].path = Append(L[i].path, c)}) = 1
                  /\ L[i].path # <<>> =>
                        \E j \in 1..Len(L) :
                            /\ ~L[j].stop
                            /\ L[j].path = SubSeq(L[i].path, 1, Len(L[i].path) - 1)

\* fosvg2image replaced a child that has a sibling after it, and the sibling
\* was visited after the replacement
C20_Witness ==
    /\ Returns("fosvg2image")
    /\ LET L == Visits("fosvg2image", prev) IN
       \E i, j \in 1..Len(L) :
           /\ i < j
           /\ L[i].stop
           /\ Len(L[i].path) = Len(L[j].path)
           /\ SubSeq(L[i].path, 1, Len(L[i].path) - 1) = SubSeq(L[j].path, 1, Len(L[j].path) - 1)
           /\ L[j].parentInfo.parentNode.children[L[i].parentInfo.childIndex + 1] # L[i].node

----------------------------------------------------------------------------
\* an svg that holds an image child made from its background link and still
\* carries the link
HalfRewritten(n) ==
    /\ n.tag = "svg"
    /\ Truthy(n.attrs, "iftool-background")
    /\ n.children # <<>>
    /\ n.children[1].tag = "image"
    /\ "iftool-href" \in DOMAIN n.children[1].attrs
    /\ n.children[1].attrs["iftool-href"] = n.attrs["iftool-background"]
    /\ DOMAIN n.children[1].attrs = {"iftool-href", "x", "y", "width", "height", "style"}

\* C18: a rule changes a match site by one replacement of the child slot and
\* by nothing else, so that the site is never half rewritten: not between the
\* statements of a callback, and not while an async rule waits for a probe,
\* when every collected site holds its img or the complete replacement
C18_AtomicMutation ==
    /\ \A rule \in Rules :
          (hist # <<>> /\ Last(hist) = rule) =>
              LET L == Visits(rule, prev) IN
              \A i \in 1..Len(L) :
                  LET w == SlotWrites(rule, L[i].node, L[i].parentInfo.parentNode) IN
                  /\ Len(w) <= 1
                  /\ \A k \in 1..Len(w) : w[k].how = "splice" /\ ~HalfRewritten(w[k].slot)
    /\ InAsync =>
          \A i \in 1..Len(targetImgs) :
              LET n == NodeAt(tree, targetImgs[i].path) IN
              n = targetImgs[i].node \/ CompleteReplacement(AsyncRule, targetImgs[i].node, n)

----------------------------------------------------------------------------
\* an svg with a direct animate child on height whose by is -1
KeepsShape(n) ==
    /\ n.tag = "svg"
    /\ \E i \in 1..Len(n.children) :
          LET c == n.children[i] IN
          /\ c.tag = "animate"
          /\ {"attributeName", "by"} \subseteq DOMAIN c.attrs
          /\ c.attrs["attributeName"] = "height" /\ c.attrs["by"] = "-1"

\* an svg with a background link: what svg2image looks for
SvgWithBackground(n) == n.tag = "svg" /\ Truthy(n.attrs, "iftool-background")

\* no node above the one at the path is an svg with a background link, so
\* svg2image leaves the path of the node as it is
NothingAboveRewritten(t, path) ==
    \A j \in 0..Len(path) - 1 : ~SvgWithBackground(NodeAt(t, SubSeq(path, 1, j)))

\* n is what svg2image makes of the svg o: the image first, the link gone
RewrittenSvg(o, n) ==
    /\ "iftool-background" \notin DOMAIN n.attrs
    /\ Len(n.children) = Len(o.children) + 1
    /\ n.children[1].tag = "image"
    /\ n.children[1].attrs["iftool-href"] = o.attrs["iftool-background"]

\* what C21 says of the svg o that has the animation and of n, the node in
\* its place afterwards, and of every such svg below that svg2image reaches
RECURSIVE ShapeKeptBelow(_, _)
ShapeKeptBelow(o, n) ==
    /\ KeepsShape(o) =>
          /\ n.attrs = o.attrs
          /\ Len(n.children) = Len(o.children)
          /\ \A i \in 1..Len(o.children) :
                IF SvgWithBackground(o.children[i]) /\ ~KeepsShape(o.children[i])
                THEN RewrittenSvg(o.children[i], n.children[i])
                ELSE n.children[i].tag = o.children[i].tag
    /\ \A i \in 1..Len(o.children) :
          (i <= Len(n.children) /\ ~(SvgWithBackground(o.children[i]) /\ ~KeepsShape(o.children[i])))
              => ShapeKeptBelow(o.children[i], n.children[i])

\* C21: svg2image never rewrites an svg that has a direct animate child on
\* height with by -1 (no image child added, the background link kept), and
\* still rewrites the svg children of it that fit the pattern
C21_AnimationShapeKept ==
    Returns("svg2image") => ShapeKeptBelow(prev, tree)

\* svg2image returned on an svg with a background link and that animation:
\* the svg is as it was and an svg child of it was rewritten
C21_Witness ==
    /\ Returns("svg2image")
    /\ \E i \in 1..Len(prev.children) :
          LET o == prev.children[i] IN
          /\ KeepsShape(o) /\ SvgWithBackground(o)
          /\ tree.children[i].attrs = o.attrs
          /\ \E j \in 1..Len(o.children) :
                /\ SvgWithBackground(o.children[j])
                /\ RewrittenSvg(o.children[j], tree.children[i].children[j])

----------------------------------------------------------------------------
\* some node above the one at the path is a foreignObject
InsideBridge(t, path) ==
    \E j \in 0..Len(path) - 1 : NodeAt(t, SubSeq(path, 1, j)).tag = "foreignObject"

\* C22: svg2image rewrites outermost svg only: an svg that has a
\* foreignObject above it, as its parent or higher up, is left as it was
C22_OutermostOnly ==
    Returns("svg2image") =>
        \A k \in 1..Len(PreOrder(prev, <<>>)) :
            LET p == PreOrder(prev, <<>>)[k] IN
            (NodeAt(prev, p).tag = "svg" /\ InsideBridge(prev, p)
             /\ NothingAboveRewritten(prev, p))
            => NodeAt(tree, p) = NodeAt(prev, p)

----------------------------------------------------------------------------
\* a foreignObject that fosvg2image replaces: its first svg child has a
\* background link and no children
MatchedBridge(n) ==
    /\ n.tag = "foreignObject"
    /\ \E i \in 1..Len(n.children) :
          /\ n.children[i].tag = "svg"
          /\ \A j \in 1..i - 1 : n.children[j].tag # "svg"
          /\ Truthy(n.children[i].attrs, "iftool-background")
          /\ n.children[i].children = <<>>

\* the first svg child of a matched foreignObject
GroupOf(n) ==
    n.children[CHOOSE i \in 1..Len(n.children) :
                  n.children[i].tag = "svg" /\ \A j \in 1..i - 1 : n.children[j].tag # "svg"]

AllowListed(k) ==
    k \in {"class", "id", "name", "label", "pointer-events", "transform", "opacity"}
    \/ k \in {"data-src", "data-lazy-bgimg", "data-id"}

\* the declarations of a style that are not width declarations, in order
RECURSIVE WithoutWidth(_)
WithoutWidth(style) ==
    IF style = <<>> THEN <<>>
    ELSE (IF Head(style).p = "width" THEN <<>> ELSE <<Head(style)>>) \o WithoutWidth(Tail(style))

\* n is the image node C23 describes for the foreignObject fo
ImageOfBridge(fo, n) ==
    LET g == GroupOf(fo)
        kept == {a \in DOMAIN fo.attrs \cup DOMAIN g.attrs : AllowListed(a)}
        style(x) == IF "style" \in DOMAIN x.attrs THEN x.attrs["style"] ELSE <<>>
    IN /\ n.tag = "image" /\ n.children = <<>>
       /\ DOMAIN n.attrs = kept \cup {"x", "y", "width", "height", "iftool-href", "style"}
       /\ \A a \in kept :
             n.attrs[a] = IF a \in DOMAIN g.attrs THEN g.attrs[a] ELSE fo.attrs[a]
       /\ \A a \in {"x", "y", "width", "height"} :
             n.attrs[a] = IF a \in DOMAIN fo.attrs /\ fo.attrs[a] # "" THEN fo.attrs[a]
                          ELSE IF a \in {"x", "y"} THEN "0" ELSE "100%"
       /\ n.attrs["iftool-href"] = g.attrs["iftool-background"]
       /\ n.attrs["style"] = WithoutWidth(style(fo) \o style(g))

\* below o, every matched foreignObject has its image in its place in n
RECURSIVE BridgesReplaced(_, _)
BridgesReplaced(o, n) ==
    /\ Len(n.children) = Len(o.children)
    /\ \A i \in 1..Len(o.children) :
          IF MatchedBridge(o.children[i])
          THEN ImageOfBridge(o.children[i], n.children[i])
          ELSE BridgesReplaced(o.children[i], n.children[i])

\* C23: fosvg2image puts in the place of every foreignObject it matches one
\* image node without children whose attributes are exactly: the allow-listed
\* attributes of the foreignObject and of the svg (the svg's value when both
\* have one), x, y, width, height of the foreignObject or 0, 0, 100%, 100%,
\* iftool-href with the svg's background link, and a style that is the
\* foreignObject's style, then the svg's, without the width declarations
C23_BridgeToImage ==
    Returns("fosvg2image") => BridgesReplaced(prev, tree)

\* fosvg2image replaced a foreignObject that has a class, a data attribute, an
\* x and a style with a width, whose svg has a class and a width of its own
C23_Witness ==
    /\ Returns("fosvg2image")
    /\ \E k \in 1..Len(PreOrder(prev, <<>>)) :
          LET fo == NodeAt(prev, PreOrder(prev, <<>>)[k])
              n == NodeAt(tree, PreOrder(prev, <<>>)[k])
          IN /\ MatchedBridge(fo)
             /\ {"class", "data-id", "x", "style"} \subseteq DOMAIN fo.attrs
             /\ "class" \in DOMAIN GroupOf(fo).attrs
             /\ \E i \in 1..Len(fo.attrs["style"]) : fo.attrs["style"][i].p = "width"
             /\ n.tag = "image" /\ n.attrs["class"] = GroupOf(fo).attrs["class"]
             /\ n.attrs["class"] # fo.attrs["class"]

----------------------------------------------------------------------------
\* the longhand background properties and the slot of each
BgSlot(p) ==
    CASE p = "background-color" -> "iftool-bg-color"
      [] p = "background-position" -> "iftool-bg-position"
      [] p = "background-size" -> "iftool-bg-size"
      [] p = "background-repeat" -> "iftool-bg-repeat"
      [] p = "background-attachment" -> "iftool-bg-attachment"
      [] p = "background-origin" -> "iftool-bg-origin"
      [] p = "background-clip" -> "iftool-bg-clip"
      [] OTHER -> ""

\* d is an element of the document as written, n the node parse made of it:
\* every longhand background declaration of d, and of the elements below it,
\* is in its slot on n, and no background declaration is left in the style
RECURSIVE SubPropertiesKept(_, _)
SubPropertiesKept(d, n) ==
    /\ "style" \in DOMAIN d.attrs =>
          /\ \A i \in 1..Len(d.attrs["style"]) :
                LET decl == d.attrs["style"][i] IN
                (BgSlot(decl.p) # "" /\ \A j \in i + 1..Len(d.attrs["style"]) :
                                            d.attrs["style"][j].p \notin {decl.p, "background"})
                    => /\ BgSlot(decl.p) \in DOMAIN n.attrs
                       /\ n.attrs[BgSlot(decl.p)] = decl.v
          /\ "style" \in DOMAIN n.attrs =>
                \A i \in 1..Len(n.attrs["style"]) : n.attrs["style"][i].p \notin BgPropNames
    /\ \A i \in 1..Len(d.children) :
          d.children[i].tag \notin {"#text", "#comment"}
              => SubPropertiesKept(d.children[i], n.children[i])

Parsed == pc = "idle" /\ hist = <<"parse">> /\ tree # ThrownTree

\* C24: after parse, every background sub-property that an element below the
\* root declares is in its iftool-bg-* slot on the node, with or without a
\* background image link, and the background declarations are out of the style
C24_SubPropertiesAlways ==
    Parsed =>
        LET d == parseFromString(preprocess(code)).documentElement IN
        \A i \in 1..Len(d.children) :
            d.children[i].tag \notin {"#text", "#comment"}
                => SubPropertiesKept(d.children[i], tree.children[i])

----------------------------------------------------------------------------
\* how many styles of the node at the path and of its ancestors declare a
\* z-index that reads as a number above 0
ZIndexStyles(t, path) ==
    Cardinality({j \in 0..Len(path) :
                    parseStyle(StyleOf(NodeAt(t, SubSeq(path, 1, j))), "z-index")
                        \in PositiveNumbers})

\* C25: every style of an image and of its ancestors that declares a z-index
\* above 0 adds 3 to the image's top additions
C25_ZIndexAddition ==
    Returns("calcLayer") =>
        \A i \in 1..Len(layer.imagesDetail) :
            LET d == layer.imagesDetail[i] IN
            d.totalTopScore >= 3 * ZIndexStyles(prev, TrackedPaths(prev)[d.globalOrder + 1])

----------------------------------------------------------------------------
\* how many of the node at the path and its ancestors carry an opacity
\* attribute between 0 and 0.05
OpacityAttrNodes(t, path) ==
    Cardinality({j \in 0..Len(path) :
                    LET n == NodeAt(t, SubSeq(path, 1, j)) IN
                    "opacity" \in DOMAIN n.attrs /\ n.attrs["opacity"] \in OpacityMinValues})

\* what the styles of the node at the path and of its ancestors take off:
\* 10 for each with a height of zero, 2 for each with an opacity up to 0.05
StyleDeductions(t, path) ==
    -10 * Cardinality({j \in 0..Len(path) :
                          parseStyle(StyleOf(NodeAt(t, SubSeq(path, 1, j))), "height")
                              \in ZeroHeights})
    - 2 * Cardinality({j \in 0..Len(path) :
                          parseStyle(StyleOf(NodeAt(t, SubSeq(path, 1, j))), "opacity")
                              \in OpacityMinValues})

\* C26: an opacity attribute between 0 and 0.05 takes 2 off once for each
\* node that carries it, the image or an ancestor, apart from what the styles
\* take off; what the image's own attribute takes off does not grow with the
\* number of its ancestors
C26_OpacityAttrOncePerNode ==
    Returns("calcLayer") =>
        \A i \in 1..Len(layer.imagesDetail) :
            LET d == layer.imagesDetail[i]
                path == TrackedPaths(prev)[d.globalOrder + 1]
            IN d.totalBottomScore = StyleDeductions(prev, path) - 2 * OpacityAttrNodes(prev, path)

----------------------------------------------------------------------------
\* the probes of the running call stay the same probes in this step
SameProbes == hist' = hist /\ Len(probes') = Len(probes)

\* C27: the promise of a probe keeps the settlement of the first event that
\* reached it (load, error or timeout) whatever comes later; when that event
\* was the load or the error the timer is cancelled; and once the promise is
\* settled the img element is out of the document
C27_FirstEventSettles ==
    /\ [](\A i \in 1..Len(probes) :
            /\ probes[i].promise.ev \in {"load", "error"} => probes[i].timer = "cleared"
            /\ probes[i].promise.ev = "timeout" => probes[i].timer = "fired"
            /\ probes[i].promise # NoOutcome => ~probes[i].attached)
    /\ [][SameProbes =>
            \A i \in 1..Len(probes) :
                /\ probes[i].promise # NoOutcome => probes'[i].promise = probes[i].promise
                /\ (probes[i].promise = NoOutcome /\ probes'[i].promise # NoOutcome)
                      => \/ probes[i].timer = "armed" /\ probes[i].loading
                         \/ probes[i] = NoProbe]_vars

\* the load of an img arrived after its probe had timed out, while another
\* probe of the same call was settled by its load
C27_Witness ==
    \E i, j \in 1..Len(probes) :
        /\ probes[i].promise.ev = "timeout" /\ probes[i].timer = "fired" /\ ~probes[i].loading
        /\ probes[j].promise.ev = "load" /\ probes[j].timer = "cleared"

----------------------------------------------------------------------------
\* the tree with the nodes that were collected put back at their sites, the
\* sites k..Len(targetImgs)
RECURSIVE PutBack(_, _)
PutBack(t, k) ==
    IF k > Len(targetImgs) THEN t
    ELSE PutBack(ReplaceAt(t, targetImgs[k].path, targetImgs[k].node), k + 1)

\* the call of the rule has returned with every collected match replaced
\* once, at the site where it was collected, and nothing else changed
AllReplacedOnce(rule) ==
    /\ ret = "tree"
    /\ Len(replaced) = Len(targetImgs)
    /\ {replaced[i] : i \in 1..Len(replaced)} = 1..Len(targetImgs)
    /\ \A i \in 1..Len(targetImgs) :
          /\ NodeAt(prev, targetImgs[i].path) = targetImgs[i].node
          /\ NodeAt(tree, targetImgs[i].path) # targetImgs[i].node
          /\ CompleteReplacement(rule, targetImgs[i].node, NodeAt(tree, targetImgs[i].path))
    /\ PutBack(tree, 1) = prev

\* C28: when every awaited probe is settled in the end, a call of img2image
\* or img2svg returns in the end, and when it has returned every match it
\* collected is replaced exactly once, at the site it had when collected, and
\* no other node is replaced
C28_AsyncTerminates ==
    \A rule \in AsyncRules :
        /\ (pc = rule) ~> (Returns(rule) /\ AllReplacedOnce(rule))
        /\ [](Returns(rule) => AllReplacedOnce(rule))

\* a call that collected two matches has returned, one probe having timed out
C28_Witness ==
    \E rule \in AsyncRules :
        /\ Returns(rule) /\ AllReplacedOnce(rule)
        /\ Len(targetImgs) = 2
        /\ \E i \in 1..2 : NodeAt(tree, targetImgs[i].path).attrs["viewBox"] = FallbackViewBox
        /\ \E i \in 1..2 : NodeAt(tree, targetImgs[i].path).attrs["viewBox"] \in ComputedViewBoxes

----------------------------------------------------------------------------
\* how many times the nodes of the tree carry the link u in iftool-href,
\* iftool-src or iftool-background
RECURSIVE UrlCount(_, _)
UrlCount(node, u) ==
    Cardinality({k \in {"iftool-href", "iftool-src", "iftool-background"} :
                    k \in DOMAIN node.attrs /\ node.attrs[k] = u})
    + SumSeq([i \in 1..Len(node.children) |-> UrlCount(node.children[i], u)])

\* the links the nodes of the tree carry
RECURSIVE UrlsIn(_)
UrlsIn(node) ==
    {node.attrs[k] : k \in DOMAIN node.attrs \cap {"iftool-href", "iftool-src", "iftool-background"}}
    \cup UNION {UrlsIn(node.children[i]) : i \in 1..Len(node.children)}

\* C29: when a rule has returned, every image link is carried by the tree as
\* many times as by the tree the rule was given: none dropped, none doubled
C29_ResourcesPreserved ==
    \A rule \in Rules :
        (Returns(rule) /\ ret # "rejected") =>
            \A u \in (UrlsIn(prev) \cup UrlsIn(tree)) \ {""} :
                UrlCount(tree, u) = UrlCount(prev, u)

----------------------------------------------------------------------------
BgSlots ==
    {"iftool-bg-color", "iftool-bg-position", "iftool-bg-size", "iftool-bg-repeat",
     "iftool-bg-attachment", "iftool-bg-origin", "iftool-bg-clip"}

\* some node of the tree carries a background slot that holds a value and no
\* iftool-background
RECURSIVE OrphanedSlotIn(_)
OrphanedSlotIn(node) ==
    \/ /\ \E k \in DOMAIN node.attrs \cap BgSlots : node.attrs[k] # ""
       /\ "iftool-background" \notin DOMAIN node.attrs
    \/ \E i \in 1..Len(node.children) : OrphanedSlotIn(node.children[i])

\* C30: in the tree parse built and in every tree the rules make of it, a
\* node that carries a background slot with a value carries iftool-background
\* as well
C30_NoOrphanedSlots ==
    (IsTree(tree) /\ pc = "idle") => ~OrphanedSlotIn(tree)
====
